---------------------------- MODULE Spec2Model ----------------------------
(***************************************************************************)
(* A model of the printf family of d265f27/stdlib: the entry points of     *)
(* printf.c, the engine generic_printf, the directive parser of            *)
(* printf_format.c, the argument vector of printf_arguments.c and the      *)
(* emitters of printf_basic_output.c.                                      *)
(*                                                                         *)
(* A template is a sequence of one-character strings; the byte after its   *)
(* last character is the terminating NUL.  A C "char 0" (no prefix) is NUL *)
(* too.  An argument of the variadic pack is a record [k, n, s]: k is the  *)
(* kind the caller passed ("int", "str", "null", "ptr", "dbl"), n its      *)
(* number (an integer, or an address), s its characters (a string).        *)
(***************************************************************************)
EXTENDS Integers, Sequences, FiniteSets, TLC

\* ------------------------------------------------------------------------
\* Characters and numbers.

NUL == "NUL"

INT_MAX == 2147483647

INT_MIN == -INT_MAX - 1

\* size_t's largest value.  The model's integers end at 2^31 - 1, and no
\* count of the model exceeds it, so the limit "no limit" is that number.
SIZE_MAX == INT_MAX

base_conversion_small ==
    <<"0", "1", "2", "3", "4", "5", "6", "7", "8", "9", "a", "b", "c", "d", "e", "f">>

base_conversion_capital ==
    <<"0", "1", "2", "3", "4", "5", "6", "7", "8", "9", "A", "B", "C", "D", "E", "F">>

null_pointer_string == <<"(", "n", "i", "l", ")">>

null_string_string == <<"(", "n", "u", "l", "l", ")">>

\* *format at index i (1-based); reading at the end gives the terminator.
CharAt(fmt, i) == IF i \in 1..Len(fmt) THEN fmt[i] ELSE NUL

\* *format >= '0' && *format <= '9'
IsDigit(c) == \E d \in 1..10 : base_conversion_small[d] = c

\* *format - '0'
DigitValue(c) == (CHOOSE d \in 1..10 : base_conversion_small[d] = c) - 1

\* ------------------------------------------------------------------------
\* printf_format.c: the directive parser.  Every reader takes the template,
\* the index of the character it looks at and the descriptor so far, and
\* gives [fs, error].

\* format_string_atoi: its loop, started with current = 0 and
\* characters_read = 0; the result is [value, characters_read].
RECURSIVE format_string_atoi(_, _, _, _)
format_string_atoi(fmt, i, current, characters_read) ==
    IF IsDigit(CharAt(fmt, i))
    THEN format_string_atoi(fmt, i + 1, current * 10 + DigitValue(CharAt(fmt, i)),
                            characters_read + 1)
    ELSE [value |-> current, characters_read |-> characters_read]

format_error_is_error(error) ==
    error \in {"FORMAT_ERROR_no_positional_width",
               "FORMAT_ERROR_no_positional_precision",
               "FORMAT_ERROR_unknown_type",
               "FORMAT_ERROR_incompatible_length_type"}

read_format_string_type(fmt, i, fs) ==
    IF CharAt(fmt, i) \in {"d", "i", "u", "o", "x", "X", "f", "F", "e", "E",
                           "g", "G", "a", "A", "c", "s", "p", "n"}
    THEN [fs |-> [fs EXCEPT !.type = CharAt(fmt, i), !.input_length = @ + 1],
          error |-> "FORMAT_okay"]
    ELSE [fs |-> [fs EXCEPT !.type = "ERROR"],
          error |-> "FORMAT_ERROR_unknown_type"]

read_format_string_length(fmt, i, fs) ==
    LET c == CharAt(fmt, i)
        c2 == CharAt(fmt, i + 1)
        two(l) == read_format_string_type(fmt, i + 2,
                      [fs EXCEPT !.length = l, !.input_length = @ + 2])
        one(l) == read_format_string_type(fmt, i + 1,
                      [fs EXCEPT !.length = l, !.input_length = @ + 1])
    IN  IF c = "h" /\ c2 = "h" THEN two("hh")
        ELSE IF c = "h" THEN one("h")
        ELSE IF c = "l" /\ c2 = "l" THEN two("ll")
        ELSE IF c = "l" THEN one("l")
        ELSE IF c = "j" THEN one("j")
        ELSE IF c = "z" THEN one("z")
        ELSE IF c = "t" THEN one("t")
        ELSE IF c = "L" THEN one("L")
        ELSE read_format_string_type(fmt, i, [fs EXCEPT !.length = "none"])

read_format_string_precision(fmt, i, fs) ==
    IF CharAt(fmt, i) = "."
    THEN IF CharAt(fmt, i + 1) = "*"
         THEN IF fs.position # 0
              THEN LET a == format_string_atoi(fmt, i + 2, 0, 0)
                       j == i + 2 + a.characters_read
                       fs1 == [fs EXCEPT !.preceding_precision = a.value,
                                         !.input_length = @ + 2 + a.characters_read]
                   IN  IF a.value = 0 \/ CharAt(fmt, j) # "$"
                       THEN [fs |-> fs1,
                             error |-> "FORMAT_ERROR_no_positional_precision"]
                       ELSE read_format_string_length(fmt, j + 1,
                                [fs1 EXCEPT !.input_length = @ + 1])
              ELSE read_format_string_length(fmt, i + 2,
                       [fs EXCEPT !.preceding_precision = 1,
                                  !.input_length = @ + 2])
         ELSE LET a == format_string_atoi(fmt, i + 1, 0, 0)
              IN  read_format_string_length(fmt, i + 1 + a.characters_read,
                      [fs EXCEPT !.precision = a.value,
                                 !.input_length = @ + 1 + a.characters_read])
    ELSE read_format_string_length(fmt, i, fs)

read_format_string_width(fmt, i, fs) ==
    IF CharAt(fmt, i) = "*"
    THEN IF fs.position # 0
         THEN LET a == format_string_atoi(fmt, i + 1, 0, 0)
                  j == i + 1 + a.characters_read
                  fs1 == [fs EXCEPT !.preceding_width = a.value,
                                    !.input_length = @ + 1 + a.characters_read]
              IN  IF a.value = 0 \/ CharAt(fmt, j) # "$"
                  THEN [fs |-> fs1, error |-> "FORMAT_ERROR_no_positional_width"]
                  ELSE read_format_string_precision(fmt, j + 1,
                           [fs1 EXCEPT !.input_length = @ + 1])
         ELSE read_format_string_precision(fmt, i + 1,
                  [fs EXCEPT !.preceding_width = 1, !.input_length = @ + 1])
    ELSE LET a == format_string_atoi(fmt, i, 0, 0)
         IN  read_format_string_precision(fmt, i + a.characters_read,
                 [fs EXCEPT !.width = a.value,
                            !.input_length = @ + a.characters_read])

\* read_format_string_flags: its loop, started with error = FORMAT_okay.
RECURSIVE read_format_string_flags(_, _, _, _)
read_format_string_flags(fmt, i, fs, error) ==
    LET c == CharAt(fmt, i)
        again(f, seen) == read_format_string_flags(fmt, i + 1,
                              [f EXCEPT !.input_length = @ + 1],
                              IF seen THEN "FORMAT_WARNING_repeat_flag" ELSE error)
        after(rest) == IF rest.error = "FORMAT_okay"
                       THEN [fs |-> rest.fs, error |-> error]
                       ELSE rest
    IN  IF c = "-" THEN again([fs EXCEPT !.left_justify = TRUE], fs.left_justify)
        ELSE IF c = "+" THEN again([fs EXCEPT !.always_sign = TRUE], fs.always_sign)
        ELSE IF c = " " THEN again([fs EXCEPT !.empty_sign = TRUE], fs.empty_sign)
        ELSE IF c = "#"
             THEN again([fs EXCEPT !.alternate_form = TRUE], fs.alternate_form)
        ELSE IF c = "0" THEN again([fs EXCEPT !.zero_padded = TRUE], fs.zero_padded)
        ELSE after(read_format_string_width(fmt, i, fs))

read_format_string_position(fmt, i, fs) ==
    IF IsDigit(CharAt(fmt, i)) /\ CharAt(fmt, i) # "0"
    THEN LET a == format_string_atoi(fmt, i, 0, 0)
             j == i + a.characters_read
             fs1 == [fs EXCEPT !.input_length = @ + a.characters_read]
         IN  IF CharAt(fmt, j) = "$"
             THEN read_format_string_flags(fmt, j + 1,
                      [fs1 EXCEPT !.input_length = @ + 1, !.position = a.value],
                      "FORMAT_okay")
             ELSE read_format_string_precision(fmt, j,
                      [fs1 EXCEPT !.width = a.value])
    ELSE read_format_string_flags(fmt, i, fs, "FORMAT_okay")

\* What format_string_check_length_type would be if it only knew the types.
length_unchecked(fs) ==
    IF fs.type \in {"d", "i", "u", "o", "x", "X", "n", "f", "F", "e", "E", "g",
                    "G", "a", "A", "c", "s", "p"}
    THEN "FORMAT_okay" ELSE "FORMAT_ERROR_unknown_type"

format_string_check_length_type(fs) ==
    IF fs.type \in {"d", "i", "u", "o", "x", "X", "n"}
    THEN IF fs.length = "L"
         THEN "FORMAT_ERROR_incompatible_length_type" ELSE "FORMAT_okay"
    ELSE IF fs.type \in {"f", "F", "e", "E", "g", "G", "a", "A"}
    THEN IF fs.length \in {"h", "hh", "l", "ll", "j", "z", "t"}
         THEN "FORMAT_ERROR_incompatible_length_type" ELSE "FORMAT_okay"
    ELSE IF fs.type \in {"c", "s"}
    THEN IF fs.length \in {"h", "hh", "ll", "j", "z", "t", "L"}
         THEN "FORMAT_ERROR_incompatible_length_type" ELSE "FORMAT_okay"
    ELSE IF fs.type = "p"
    THEN IF fs.length # "none"
         THEN "FORMAT_ERROR_incompatible_length_type" ELSE "FORMAT_okay"
    ELSE "FORMAT_ERROR_unknown_type"

\* The descriptor as read_format_string sets it before reading.  The code
\* leaves length and type unset there; they are read only after a reader
\* has set them.
EmptySpecifier ==
    [input_length |-> 0, left_justify |-> FALSE, always_sign |-> FALSE,
     empty_sign |-> FALSE, alternate_form |-> FALSE, zero_padded |-> FALSE,
     preceding_width |-> 0, width |-> 0, preceding_precision |-> 0,
     precision |-> -1, length |-> "none", type |-> "ERROR", position |-> 0]

\* read_format_string, given the index of the character after '%'.
read_format_string(fmt, i) ==
    LET checked(r, error2) ==
            IF format_error_is_error(r.error) THEN r
            ELSE IF format_error_is_error(error2) THEN [fs |-> r.fs, error |-> error2]
            ELSE r
        read(r) == checked(r, format_string_check_length_type(r.fs))
    IN  read(read_format_string_position(fmt, i, EmptySpecifier))

\* format_string_check_unused_values clears what the type makes meaningless
\* (the warning it returns is not used); its blocks, in the order of the code.

\* "+ d": the space flag gives way to '+'.
check_unused_empty_sign(fs) ==
    IF fs.always_sign /\ fs.empty_sign THEN [fs EXCEPT !.empty_sign = FALSE] ELSE fs

\* "#i" "#d" "#u".
check_unused_alternate_form(fs) ==
    IF fs.type \in {"d", "i", "u"} THEN [fs EXCEPT !.alternate_form = FALSE] ELSE fs

\* "+x" "+X" " x" " X".
check_unused_hex_sign(fs) ==
    IF fs.type \in {"x", "X"}
    THEN [fs EXCEPT !.always_sign = FALSE, !.empty_sign = FALSE] ELSE fs

\* The flags other than '-' with c, s or p.
check_unused_text_flags(fs) ==
    IF fs.type \in {"c", "s", "p"}
    THEN [fs EXCEPT !.always_sign = FALSE, !.empty_sign = FALSE,
                    !.alternate_form = FALSE, !.zero_padded = FALSE]
    ELSE fs

\* Everything with n.
check_unused_n(fs) ==
    IF fs.type = "n"
    THEN [fs EXCEPT !.always_sign = FALSE, !.empty_sign = FALSE,
                    !.alternate_form = FALSE, !.zero_padded = FALSE,
                    !.left_justify = FALSE, !.width = 0, !.precision = -1]
    ELSE fs

\* The precision with c and p.
check_unused_precision(fs) ==
    IF fs.type \in {"c", "p"} THEN [fs EXCEPT !.precision = -1] ELSE fs

\* What check_unused_zero_padded would be if it kept the flag.
keep_zero_padded(fs) == fs

\* '0' with '-', and '0' with a precision.
check_unused_zero_padded(fs) ==
    IF (fs.zero_padded /\ fs.left_justify) \/ fs.precision # -1
    THEN [fs EXCEPT !.zero_padded = FALSE] ELSE fs

\* What format_string_check_unused_values would be if it left the
\* descriptor as it was fetched.
values_left_unchecked(fs) == fs

format_string_check_unused_values(fs) ==
    check_unused_zero_padded(check_unused_precision(check_unused_n(
        check_unused_text_flags(check_unused_hex_sign(
            check_unused_alternate_form(check_unused_empty_sign(fs)))))))

\* ------------------------------------------------------------------------
\* printf.c: the sinks.  An output_specifier is a record with the struct's
\* fields type, stream, fd, string, allocated_size, character_limit and
\* characters_written, and with what lies behind its handles:
\*   sent      the bytes the stream or the descriptor has received,
\*   accepts   how many more writes the stream or descriptor takes before
\*             putc gives EOF or write gives 0,
\*   block     the size of the heap block behind an allocated string,
\*   block_state  "none", "live", "freed" or "freed twice",
\*   reallocs  how many more realloc calls succeed,
\*   ub        whether a write went through a null stream handle,
\*   overrun   whether a byte was stored at or past the end of the block,
\*   calls     how many times printf_output has been called.
\* For OUTPUT_string, string holds the bytes stored through the moving
\* pointer, so the pointer stands at string[Len(string)]. A writer gives
\* [ok, out]: what it returns, and the output_specifier after it.

\* A budget (writes a stream still takes, allocations the heap still
\* grants) is a count, or Unlimited; Take gives the budget after one use.
Unlimited == 0 - 1

Take(budget) == IF budget > 0 THEN budget - 1 ELSE budget

\* What printf_output_sprintf_skip would be if a suppressed write were not
\* counted.
skip_without_counting(output, n) == output

\* The branches of printf_output_sprintf that only count: n such calls.
printf_output_sprintf_skip(output, n) ==
    [output EXCEPT !.characters_written = @ + n]

\* What printf_output_sprintf_full would be if no slot were kept for the
\* terminator.
full_at_limit(output) ==
    \/ output.character_limit = 0
    \/ output.characters_written >= output.character_limit

\* Whether printf_output_sprintf takes one of its counting branches.
printf_output_sprintf_full(output) ==
    \/ output.character_limit = 0
    \/ output.characters_written >= output.character_limit - 1

\* What printf_output_sprintf would be if it stopped storing one byte early.
stops_one_early(output, c) ==
    IF \/ output.character_limit = 0
       \/ output.characters_written + 1 >= output.character_limit - 1
    THEN [ok |-> TRUE, out |-> printf_output_sprintf_skip(output, 1)]
    ELSE [ok |-> TRUE,
          out |-> [output EXCEPT !.string = Append(@, c),
                                 !.characters_written = @ + 1]]

printf_output_sprintf(output, c) ==
    IF printf_output_sprintf_full(output)
    THEN [ok |-> TRUE, out |-> printf_output_sprintf_skip(output, 1)]
    ELSE [ok |-> TRUE,
          out |-> [output EXCEPT !.string = Append(@, c),
                                 !.characters_written = @ + 1]]

printf_output_fprintf(output, c) ==
    IF output.stream = "NULL"
    THEN [ok |-> FALSE, out |-> [output EXCEPT !.ub = TRUE]]
    ELSE IF output.accepts = 0
    THEN [ok |-> FALSE, out |-> output]
    ELSE [ok |-> TRUE,
          out |-> [output EXCEPT !.sent = Append(@, c), !.accepts = Take(@),
                                 !.characters_written = @ + 1]]

\* What printf_output_dprintf would be if a write that is not taken were
\* passed over.
write_not_checked(output, c) ==
    IF output.accepts = 0
    THEN [ok |-> TRUE, out |-> output]
    ELSE [ok |-> TRUE,
          out |-> [output EXCEPT !.sent = Append(@, c), !.accepts = Take(@),
                                 !.characters_written = @ + 1]]

printf_output_dprintf(output, c) ==
    IF output.accepts = 0
    THEN [ok |-> FALSE, out |-> output]
    ELSE [ok |-> TRUE,
          out |-> [output EXCEPT !.sent = Append(@, c), !.accepts = Take(@),
                                 !.characters_written = @ + 1]]

\* free(p): the state of the allocation p points to afterwards.  free(NULL)
\* does nothing; free of what has been freed frees it a second time.
release(st) ==
    IF st = "live" THEN "freed"
    ELSE IF st = "freed" THEN "freed twice" ELSE st

\* The store "*(output->string + output->characters_written) = c" of the
\* growable sink and the count of it.
store_in_block(o, c) ==
    [o EXCEPT !.string = Append(@, c),
              !.characters_written = @ + 1,
              !.overrun = @ \/ o.characters_written >= o.block]

\* printf_output_asprintf, were it to grow the block one character late.
grows_one_late(output, c) ==
    IF output.characters_written > output.allocated_size /\ output.reallocs # 0
    THEN [ok |-> TRUE,
          out |-> store_in_block([output EXCEPT
                                     !.block = output.allocated_size * 2,
                                     !.allocated_size = @ * 2,
                                     !.reallocs = Take(@)], c)]
    ELSE [ok |-> TRUE, out |-> store_in_block(output, c)]

printf_output_asprintf(output, c) ==
    LET grown == [output EXCEPT !.block = output.allocated_size * 2,
                                !.allocated_size = @ * 2,
                                !.reallocs = Take(@)]
        put(o) == store_in_block(o, c)
    IN  IF output.characters_written >= output.allocated_size
        THEN IF output.reallocs = 0
             THEN [ok |-> FALSE,
                   out |-> [output EXCEPT !.block_state = release(@)]]
             ELSE [ok |-> TRUE, out |-> put(grown)]
        ELSE [ok |-> TRUE, out |-> put(output)]

printf_output(output, c) ==
    LET o == [output EXCEPT !.calls = @ + 1]
    IN  IF o.type = "OUTPUT_string" THEN printf_output_sprintf(o, c)
        ELSE IF o.type = "OUTPUT_stream" THEN printf_output_fprintf(o, c)
        ELSE IF o.type = "OUTPUT_file_descriptor" THEN printf_output_dprintf(o, c)
        ELSE IF o.type = "OUTPUT_allocated_string" THEN printf_output_asprintf(o, c)
        ELSE [ok |-> FALSE, out |-> o]

\* ------------------------------------------------------------------------
\* printf_basic_output.c: the emitters.  A writer that follows another takes
\* the other's [ok, out] and, as the code returns at the first failed write,
\* does nothing once ok is false.

\* pad_output.  Once a fixed buffer is full every further call only counts,
\* so the rest of the loop is taken in one step.
RECURSIVE pad_output(_, _, _)
pad_output(r, length, pad_character) ==
    IF ~r.ok \/ length <= 0 THEN r
    ELSE IF r.out.type = "OUTPUT_string" /\ printf_output_sprintf_full(r.out)
    THEN [ok |-> TRUE,
          out |-> [printf_output_sprintf_skip(r.out, length)
                       EXCEPT !.calls = @ + length]]
    ELSE pad_output(printf_output(r.out, pad_character), length - 1, pad_character)

\* write_backwards_buffer: its loop from i on (buffer[length - 1 - i] of the
\* code is buffer[length - i] of a sequence).
RECURSIVE write_backwards_buffer(_, _, _, _)
write_backwards_buffer(r, buffer, length, i) ==
    IF ~r.ok \/ i >= length THEN r
    ELSE write_backwards_buffer(printf_output(r.out, buffer[length - i]),
                                buffer, length, i + 1)

\* write_forwards_buffer: its loop from i on.
RECURSIVE write_forwards_buffer(_, _, _, _)
write_forwards_buffer(r, buffer, length, i) ==
    IF ~r.ok \/ i >= length THEN r
    ELSE write_forwards_buffer(printf_output(r.out, buffer[i + 1]),
                               buffer, length, i + 1)

\* One prefix character, written unless it is char 0.
write_prefix(r, prefix) ==
    IF ~r.ok \/ prefix = NUL THEN r ELSE printf_output(r.out, prefix)

write_backwards_buffer_with_padding(output, buffer, length, fs, prefix, prefix2, padding, precision_padding) ==
    LET r0 == [ok |-> TRUE, out |-> output]
        prefixes(r) == write_prefix(write_prefix(r, prefix), prefix2)
        number(r) == write_backwards_buffer(pad_output(r, precision_padding, "0"),
                                            buffer, length, 0)
    IN  IF fs.zero_padded
        THEN number(pad_output(prefixes(r0), padding, "0"))
        ELSE IF ~fs.left_justify /\ ~fs.zero_padded
        THEN number(prefixes(pad_output(r0, padding, " ")))
        ELSE IF fs.left_justify /\ ~fs.zero_padded
        THEN pad_output(number(prefixes(r0)), padding, " ")
        ELSE r0

\* strnlen_safe: the length of str, or max, whichever is smaller.
strnlen_safe(str, max) == IF Len(str) < max THEN Len(str) ELSE max

\* write_integer_backwards: the buffer it fills, least digit first.
RECURSIVE write_integer_backwards(_, _, _)
write_integer_backwards(value, fs, base) ==
    LET char_values == IF fs.type = "X" THEN base_conversion_capital
                                        ELSE base_conversion_small
        digit == char_values[(value % base) + 1]
    IN  IF value \div base # 0
        THEN <<digit>> \o write_integer_backwards(value \div base, fs, base)
        ELSE <<digit>>

\* C's value % 10 and value / 10 for a negative value (truncation to zero).
c_remainder10(value) == IF value % 10 = 0 THEN 0 ELSE (value % 10) - 10

c_quotient10(value) == (value - c_remainder10(value)) \div 10

\* What write_decimal_negative_backwards would be if it negated the value,
\* in the width of the widest integer, and counted the digits while the
\* result is above 0: the negation of the least value is the least value.
negated_first(value) ==
    LET negated == IF value = INT_MIN THEN INT_MIN ELSE 0 - value
    IN  IF negated <= 0 THEN <<>>
        ELSE write_integer_backwards(negated, [type |-> "d"], 10)

\* write_decimal_negative_backwards: the buffer it fills, least digit first.
RECURSIVE write_decimal_negative_backwards(_)
write_decimal_negative_backwards(value) ==
    LET digit == base_conversion_small[(0 - c_remainder10(value)) + 1]
    IN  IF c_quotient10(value) # 0
        THEN <<digit>> \o write_decimal_negative_backwards(c_quotient10(value))
        ELSE <<digit>>

\* What precision_padding_of would be if the precision added no digits.
no_precision_padding(fs, length) == 0

\* The precision step the integer emitters share: what is added to length
\* to reach the precision.
precision_padding_of(fs, length) ==
    IF fs.precision = -1 THEN 0
    ELSE IF fs.precision > length THEN fs.precision - length ELSE 0

\* What padding_amount_of would be if the width did not count the prefix.
padding_without_prefix(fs, precision_length, extra) ==
    IF fs.width > precision_length THEN fs.width - precision_length ELSE 0

\* The width step the integer emitters share: the padding of a field whose
\* number takes precision_length characters and whose prefix takes extra.
padding_amount_of(fs, precision_length, extra) ==
    IF fs.width > precision_length + extra
    THEN fs.width - precision_length - extra ELSE 0

write_hexadecimal(output, value, fs) ==
    LET x_char == IF fs.alternate_form
                  THEN (IF fs.type = "X" THEN "X" ELSE "x") ELSE NUL
        zero_char == IF fs.alternate_form THEN "0" ELSE NUL
        buffer == IF fs.precision = 0 /\ value = 0 THEN <<>>
                  ELSE write_integer_backwards(value, fs, 16)
        length == Len(buffer)
        precision_padding == precision_padding_of(fs, length)
        precision_length == length + precision_padding
        padding_amount == padding_amount_of(fs, precision_length,
                                            IF fs.alternate_form THEN 2 ELSE 0)
    IN  write_backwards_buffer_with_padding(output, buffer, length, fs, zero_char,
            x_char, padding_amount, precision_padding)

write_decimal_negative(output, value, fs) ==
    LET buffer == write_decimal_negative_backwards(value)
        length == Len(buffer)
        precision_padding == precision_padding_of(fs, length)
        precision_length == length + precision_padding
        padding_amount == padding_amount_of(fs, precision_length, 1)
    IN  write_backwards_buffer_with_padding(output, buffer, length, fs, "-",
            NUL, padding_amount, precision_padding)

write_decimal_positive(output, value, fs) ==
    LET buffer == IF fs.precision = 0 /\ value = 0 THEN <<>>
                  ELSE write_integer_backwards(value, fs, 10)
        length == Len(buffer)
        precision_padding == precision_padding_of(fs, length)
        precision_length == length + precision_padding
        padding_amount == padding_amount_of(fs, precision_length,
                              IF fs.always_sign \/ fs.empty_sign THEN 1 ELSE 0)
        plus_char == IF fs.always_sign THEN "+"
                     ELSE IF fs.empty_sign THEN " " ELSE NUL
    IN  write_backwards_buffer_with_padding(output, buffer, length, fs, plus_char,
            NUL, padding_amount, precision_padding)

\* write_octal's change of the caller's descriptor: '#' is dropped when the
\* precision already puts a zero in front.
write_octal_fs(value, fs) ==
    LET length == IF fs.precision = 0 /\ value = 0 THEN 0
                  ELSE Len(write_integer_backwards(value, fs, 8))
    IN  IF precision_padding_of(fs, length) > 0
        THEN [fs EXCEPT !.alternate_form = FALSE] ELSE fs

write_octal(output, value, fs) ==
    LET buffer == IF fs.precision = 0 /\ value = 0 THEN <<>>
                  ELSE write_integer_backwards(value, fs, 8)
        length == Len(buffer)
        precision_padding == precision_padding_of(fs, length)
        precision_length == length + precision_padding
        fs2 == write_octal_fs(value, fs)
        padding_amount == padding_amount_of(fs2, precision_length,
                                            IF fs2.alternate_form THEN 1 ELSE 0)
        zero_char == IF fs2.alternate_form THEN "0" ELSE NUL
    IN  write_backwards_buffer_with_padding(output, buffer, length, fs2, zero_char,
            NUL, padding_amount, precision_padding)

write_integer_positive(output, value, fs) ==
    IF fs.type \in {"u", "d", "i"} THEN write_decimal_positive(output, value, fs)
    ELSE IF fs.type = "o" THEN write_octal(output, value, fs)
    ELSE IF fs.type \in {"x", "X"} THEN write_hexadecimal(output, value, fs)
    ELSE [ok |-> FALSE, out |-> output]

write_string(output, input, fs) ==
    LET input2 == IF fs.precision # 0 /\ input.k = "null"
                  THEN null_string_string ELSE input.s
        length == IF fs.precision # -1 THEN strnlen_safe(input2, fs.precision)
                  ELSE Len(input2)
        padding_amount == IF fs.width > length THEN fs.width - length ELSE 0
        r0 == [ok |-> TRUE, out |-> output]
    IN  IF ~fs.left_justify
        THEN write_forwards_buffer(pad_output(r0, padding_amount, " "),
                                   input2, length, 0)
        ELSE pad_output(write_forwards_buffer(r0, input2, length, 0),
                        padding_amount, " ")

\* The character a byte value stands for: "char buffer = value".
ascii(value) ==
    LET table == 32 :> " " @@ 37 :> "%" @@ 48 :> "0" @@ 65 :> "A" @@ 66 :> "B"
                 @@ 97 :> "a" @@ 104 :> "h" @@ 105 :> "i" @@ 122 :> "z"
    IN  IF value \in DOMAIN table THEN table[value] ELSE "\\" \o ToString(value)

write_character(output, value, fs) ==
    LET padding_amount == IF fs.width > 1 THEN fs.width - 1 ELSE 0
    IN  write_backwards_buffer_with_padding(output, <<ascii(value)>>, 1, fs, NUL,
            NUL, padding_amount, 0)

\* What to_signed_char would be if the value were used as extracted.
not_narrowed(n) == n

\* C's narrowing conversions of an int.
to_signed_char(n) == IF n % 256 >= 128 THEN (n % 256) - 256 ELSE n % 256

to_short(n) == IF n % 65536 >= 32768 THEN (n % 65536) - 65536 ELSE n % 65536

\* What write_characters_written would be if it stored the count as an int
\* whatever the length modifier.
stored_unnarrowed(output, pointer, fs, memory) ==
    IF pointer.n = 0 THEN [ok |-> FALSE, memory |-> memory]
    ELSE [ok |-> TRUE,
          memory |-> [memory EXCEPT ![pointer.n] = output.characters_written]]

\* write_characters_written: [ok, memory]; memory maps an address to the
\* number stored there.
write_characters_written(output, pointer, fs, memory) ==
    IF pointer.n = 0 THEN [ok |-> FALSE, memory |-> memory]
    ELSE IF fs.length = "hh"
    THEN [ok |-> TRUE,
          memory |-> [memory EXCEPT ![pointer.n] = to_signed_char(output.characters_written)]]
    ELSE IF fs.length = "h"
    THEN [ok |-> TRUE,
          memory |-> [memory EXCEPT ![pointer.n] = to_short(output.characters_written)]]
    ELSE IF fs.length \in {"none", "l", "ll", "j", "z", "t"}
    THEN [ok |-> TRUE,
          memory |-> [memory EXCEPT ![pointer.n] = output.characters_written]]
    ELSE [ok |-> FALSE, memory |-> memory]

write_pointer(output, pointer, fs) ==
    LET pointer_fs == [EmptySpecifier EXCEPT !.left_justify = fs.left_justify,
                                             !.width = fs.width, !.type = "x"]
    IN  IF pointer.n = 0
        THEN write_string(output, [k |-> "str", n |-> 0, s |-> null_pointer_string],
                          pointer_fs)
        ELSE write_hexadecimal(output, pointer.n,
                               [pointer_fs EXCEPT !.alternate_form = TRUE])

\* ------------------------------------------------------------------------
\* printf_arguments.c: the argument vector.  The variadic pack is the
\* sequence args and the va_list the index ap of its next value.  A slot of
\* the positional table is [length, type, item]; item is [st, v]: st is
\* "null" (no allocation), "live", "freed" or "freed twice", v the value
\* stored in it.

NoArg == [k |-> "none", n |-> 0, s |-> <<>>]

NullItem == [st |-> "null", v |-> NoArg]

NewSlot == [type |-> "ERROR", length |-> "none", item |-> NullItem]

\* What loaded_item would be if every directive read the first slot.
first_item(positional_items, position) == positional_items[1].item.v

\* The item behind positional_items[position - 1].
loaded_item(positional_items, position) == positional_items[position].item.v

\* Both give [value, ap]: the value popped or loaded, and the va_list after.
pop_or_load_integer(fs, args, ap, using_positions, positional_items) ==
    LET raw == IF using_positions THEN loaded_item(positional_items, fs.position)
               ELSE args[ap]
        n == IF fs.length = "hh" THEN to_signed_char(raw.n)
             ELSE IF fs.length = "h" THEN to_short(raw.n)
             ELSE IF fs.length \in {"none", "l", "ll", "j", "z", "t"} THEN raw.n
             ELSE 0
    IN  [value |-> [k |-> "int", n |-> n, s |-> <<>>],
         ap |-> IF using_positions THEN ap ELSE ap + 1]

\* An unsigned int of the pack is a number of 0..INT_MAX here, which the
\* conversions to unsigned int and wider leave as it is.
pop_or_load_unsigned_integer(fs, args, ap, using_positions, positional_items) ==
    LET raw == IF using_positions THEN loaded_item(positional_items, fs.position)
               ELSE args[ap]
        n == IF fs.length = "hh" THEN raw.n % 256
             ELSE IF fs.length = "h" THEN raw.n % 65536
             ELSE IF fs.length \in {"none", "l", "ll", "j", "z", "t"} THEN raw.n
             ELSE 0
    IN  [value |-> [k |-> "int", n |-> n, s |-> <<>>],
         ap |-> IF using_positions THEN ap ELSE ap + 1]

pop_or_load_character(fs, args, ap, using_positions, positional_items) ==
    LET raw == IF using_positions THEN loaded_item(positional_items, fs.position)
               ELSE args[ap]
    IN  [value |-> [k |-> "int", n |-> raw.n % 256, s |-> <<>>],
         ap |-> IF using_positions THEN ap ELSE ap + 1]

\* pop_or_load_string, pop_or_load_pointer and pop_or_load_n_pointer: the
\* pointer as the caller passed it.
pop_or_load_pointer(fs, args, ap, using_positions, positional_items) ==
    [value |-> IF using_positions THEN loaded_item(positional_items, fs.position)
               ELSE args[ap],
     ap |-> IF using_positions THEN ap ELSE ap + 1]

pop_or_load_width_precision(args, ap, using_positions, positional_items, position) ==
    [value |-> IF using_positions THEN loaded_item(positional_items, position).n
               ELSE args[ap].n,
     ap |-> IF using_positions THEN ap ELSE ap + 1]

\* The object a '*' is read from: the stored item of the slot, or the next
\* value of the pack (none when the index is 0).
star_source(args, ap, using_positions, positional_items, position) ==
    IF position = 0 THEN [k |-> "int", n |-> 0, s |-> <<>>]
    ELSE IF using_positions THEN loaded_item(positional_items, position)
    ELSE args[ap]

\* The ints a read through `*(int *) pointer`, or va_arg(int), can give:
\* the int the object holds, or, the object being of another type, an int
\* that its bytes happen to spell.
read_as_int(source, value) ==
    IF source.k = "int" THEN {value} ELSE {0 - 1, 0, 2}

\* pop_and_store_cleanup: the table with the items it frees marked.
pop_and_store_cleanup(pia, count) ==
    [pia EXCEPT !.array =
        [i \in 1..Len(pia.array) |->
            IF i - 1 < count - 1
            THEN [pia.array[i] EXCEPT !.item.st = release(@)]
            ELSE pia.array[i]]]

\* The pop_and_store_ functions: one malloc, one va_arg and the store.  They
\* differ in the C type they pull; the value is kept as the caller passed
\* it.  Gives [ok, item].
pop_and_store_item(current_item, args, ap, mallocs) ==
    IF current_item.type \in {"d", "i", "u", "o", "x", "X", "n"}
       /\ current_item.length = "L"
    THEN [ok |-> FALSE, item |-> current_item.item]
    ELSE IF current_item.type \in {"f", "F", "e", "E", "g", "G", "a", "A"}
            /\ current_item.length \notin {"none", "L"}
    THEN [ok |-> FALSE, item |-> current_item.item]
    ELSE IF current_item.type = "ERROR"
    THEN [ok |-> FALSE, item |-> current_item.item]
    ELSE IF mallocs = 0
    THEN [ok |-> FALSE, item |-> current_item.item]
    ELSE [ok |-> TRUE, item |-> [st |-> "live", v |-> args[ap]]]

\* pop_and_store_argument_list: its loop from i on; [ok, pia, ap, mallocs].
RECURSIVE pop_and_store_argument_list(_, _, _, _, _, _)
pop_and_store_argument_list(pia, count, args, ap, mallocs, i) ==
    IF i >= count THEN [ok |-> TRUE, pia |-> pia, ap |-> ap, mallocs |-> mallocs]
    ELSE LET r == pop_and_store_item(pia.array[i + 1], args, ap, mallocs)
         IN  IF ~r.ok
             THEN [ok |-> FALSE, pia |-> pop_and_store_cleanup(pia, count),
                   ap |-> ap, mallocs |-> mallocs]
             ELSE pop_and_store_argument_list(
                      [pia EXCEPT !.array[i + 1].item = r.item],
                      count, args, ap + 1, Take(mallocs), i + 1)

DEFAULT_PIA_SIZE == 8

\* pia_initialise: [ok, pia, mallocs].  A positional_info_array is [size,
\* array] with what lies behind the pointer: array_state, the state of the
\* block, and outside, whether an element outside the block has been used.
pia_initialise(pia, mallocs) ==
    IF mallocs = 0 THEN [ok |-> FALSE, pia |-> pia, mallocs |-> mallocs]
    ELSE [ok |-> TRUE,
          pia |-> [size |-> DEFAULT_PIA_SIZE,
                   array |-> [i \in 1..DEFAULT_PIA_SIZE |-> NewSlot],
                   array_state |-> "live", outside |-> FALSE],
          mallocs |-> Take(mallocs)]

\* The doubling loop of pia_check_size_and_update.
RECURSIVE pia_new_size(_, _)
pia_new_size(current_size, required_size) ==
    IF current_size < required_size
    THEN pia_new_size(current_size * 2, required_size) ELSE current_size

\* "current_size *= 2" on an int of 32 bits whose overflow wraps.
twice_int(n) ==
    IF n >= 1073741824 THEN ((n - 1073741824) - 1073741824) * 2
    ELSE IF n < 0 - 1073741824 THEN ((n + 1073741824) + 1073741824) * 2
    ELSE n * 2

\* Whether that multiplication overflows the int.
twice_overflows(n) == n >= 1073741824 \/ n < 0 - 1073741824

\* The heap of the model grants no table of more slots than this; the
\* doubling loop for a larger one is taken step by step.
TableLimit == 64

\* pia_check_size_and_update: [ok, pia, mallocs].
pia_check_size_and_update(pia, required_size, mallocs) ==
    IF required_size > pia.size
    THEN IF mallocs = 0 THEN [ok |-> FALSE, pia |-> pia, mallocs |-> mallocs]
         ELSE [ok |-> TRUE,
               pia |-> [pia EXCEPT
                   !.size = pia_new_size(pia.size, required_size),
                   !.array = [i \in 1..pia_new_size(pia.size, required_size) |->
                                 IF i <= pia.size THEN pia.array[i] ELSE NewSlot]],
               mallocs |-> Take(mallocs)]
    ELSE [ok |-> TRUE, pia |-> pia, mallocs |-> mallocs]

\* One record of the pre-scan: the slot at array index `index` (0-based, as
\* in the code) is checked against (type, length) and set to it.  An index
\* of -1 is outside the table: what is read there is not the table's, and
\* `passes` says whether that content gets past the check; the write then
\* lands outside the table too.  Gives [ok, pia, ub].
record_slot(pia, index, type, length, passes) ==
    IF index < 0 \/ index >= pia.size
    THEN [ok |-> passes, pia |-> [pia EXCEPT !.outside = TRUE], ub |-> TRUE]
    ELSE LET current_item == pia.array[index + 1]
         IN  IF current_item.type # "ERROR"
                /\ (current_item.type # type \/ current_item.length # length)
             THEN [ok |-> FALSE, pia |-> pia, ub |-> FALSE]
             ELSE [ok |-> TRUE,
                   pia |-> [pia EXCEPT !.array[index + 1].type = type,
                                       !.array[index + 1].length = length],
                   ub |-> FALSE]

\* The larger of max_found and a position.
max_of(max_found, position) ==
    IF position > max_found THEN position ELSE max_found

Freed(pia) == [pia EXCEPT !.array_state = release(@)]

\* What the pre-scan does with one parsed directive: [ok, pia, max, mallocs,
\* ub].  On failure the table has been freed.
prescan_specifier(fs, pia, max_found, mallocs, passes) ==
    LET fail(p, m, u) == [ok |-> FALSE, pia |-> Freed(p), max |-> max_found,
                          mallocs |-> m, ub |-> u]
        \* the printed value
        value2(v1, v2, max2, u) ==
            IF ~v2.ok THEN fail(v2.pia, v1.mallocs, u)
            ELSE [ok |-> TRUE, pia |-> v2.pia, max |-> max_of(max2, fs.position),
                  mallocs |-> v1.mallocs, ub |-> u]
        value1(p, v1, max2, u) ==
            IF ~v1.ok THEN fail(p, v1.mallocs, u)
            ELSE value2(v1, record_slot(v1.pia, fs.position - 1, fs.type,
                                        fs.length, passes), max2, u)
        value(p, m, max2, u) ==
            value1(p, pia_check_size_and_update(p, fs.position, m), max2, u)
        \* precision: the slot recorded is the one at preceding_width - 1
        precision2(p1, p2, max1) ==
            IF ~p2.ok THEN fail(p2.pia, p1.mallocs, p2.ub)
            ELSE value(p2.pia, p1.mallocs, max_of(max1, fs.preceding_precision),
                       p2.ub)
        precision1(p, p1, max1) ==
            IF ~p1.ok THEN fail(p, p1.mallocs, FALSE)
            ELSE precision2(p1, record_slot(p1.pia, fs.preceding_width - 1, "i",
                                            "none", passes), max1)
        precision(p, m, max1) ==
            IF fs.preceding_precision # 0
            THEN precision1(p, pia_check_size_and_update(p, fs.preceding_precision,
                                                         m), max1)
            ELSE value(p, m, max1, FALSE)
        \* width
        width2(w1, w2) ==
            IF ~w2.ok THEN fail(w2.pia, w1.mallocs, w2.ub)
            ELSE precision(w2.pia, w1.mallocs,
                           max_of(max_found, fs.preceding_width))
        width1(w1) ==
            IF ~w1.ok THEN fail(pia, mallocs, FALSE)
            ELSE width2(w1, record_slot(w1.pia, fs.preceding_width - 1, "i",
                                        "none", passes))
    IN  IF fs.preceding_width # 0
        THEN width1(pia_check_size_and_update(pia, fs.preceding_width, mallocs))
        ELSE precision(pia, mallocs, max_found)

no_slot_unrecorded(pia, max_found) == FALSE

\* "Check we don't have any holes": a slot of 1..max_found is still
\* TYPE_ERROR.
slot_left_unrecorded(pia, max_found) ==
    \E k \in 1..max_found : pia.array[k].type = "ERROR"

\* The loop of parse_format_string_for_positions from index i on, and the
\* check of the slots 1..max_found after it.  (CHOOSE v \in {f(x) : x \in {e}}
\* is f(e), with e worked out once.)
RECURSIVE prescan_loop(_, _, _, _, _, _, _)
prescan_loop(fmt, i, pia, max_found, mallocs, passes, ub) ==
    IF CharAt(fmt, i) = NUL
    THEN IF slot_left_unrecorded(pia, max_found)
         THEN [ok |-> FALSE, pia |-> Freed(pia), max |-> max_found,
               mallocs |-> mallocs, ub |-> ub]
         ELSE [ok |-> TRUE, pia |-> pia, max |-> max_found,
               mallocs |-> mallocs, ub |-> ub]
    ELSE IF CharAt(fmt, i) = "%" /\ CharAt(fmt, i + 1) = "%"
    THEN prescan_loop(fmt, i + 2, pia, max_found, mallocs, passes, ub)
    ELSE IF CharAt(fmt, i) = "%"
    THEN LET recorded(r) ==
                 IF ~r.ok THEN [r EXCEPT !.ub = r.ub \/ ub]
                 ELSE prescan_loop(fmt, i + 1, r.pia, r.max, r.mallocs, passes,
                                   r.ub \/ ub)
             parsed(p) ==
                 IF format_error_is_error(p.error) \/ p.fs.position = 0
                 THEN [ok |-> FALSE, pia |-> Freed(pia), max |-> max_found,
                       mallocs |-> mallocs, ub |-> ub]
                 ELSE CHOOSE v \in {recorded(r) :
                                   r \in {prescan_specifier(p.fs, pia, max_found,
                                                            mallocs, passes)}} : TRUE
         IN  CHOOSE v \in {parsed(p) : p \in {read_format_string(fmt, i + 1)}} : TRUE
    ELSE prescan_loop(fmt, i + 1, pia, max_found, mallocs, passes, ub)

\* parse_format_string_for_positions: [ok, pia, max, mallocs, ub].
parse_format_string_for_positions(fmt, pia, mallocs, passes) ==
    LET scan(init) ==
            IF ~init.ok
            THEN [ok |-> FALSE, pia |-> pia, max |-> 0, mallocs |-> mallocs,
                  ub |-> FALSE]
            ELSE prescan_loop(fmt, 1, init.pia, 0, init.mallocs, passes, FALSE)
    IN  scan(pia_initialise(pia, mallocs))

\* ------------------------------------------------------------------------
\* printf.c: the steps of generic_printf that are functions of its locals.

\* What inconsistent_positions would be if the disciplines could be mixed.
never_inconsistent(fs, using_positions) == FALSE

\* The check "for consistency between this format string and
\* using_positions": whether the directive belongs to the other discipline.
inconsistent_positions(fs, using_positions) ==
    \/ fs.position = 0 /\ using_positions
    \/ fs.position # 0 /\ ~using_positions

\* What apply_preceding_width would be if a negative width did not set the
\* flag.
width_without_flag(fs, width) ==
    [fs EXCEPT !.width = IF width >= 0 THEN width
                         ELSE IF width = INT_MIN THEN INT_MAX ELSE 0 - width]

\* The descriptor once a '*' width has been fetched.
apply_preceding_width(fs, width) ==
    IF width >= 0 THEN [fs EXCEPT !.width = width]
    ELSE IF width = INT_MIN
    THEN [fs EXCEPT !.left_justify = TRUE, !.width = INT_MAX]
    ELSE [fs EXCEPT !.left_justify = TRUE, !.width = 0 - width]

\* The descriptor once a '*' precision has been fetched.
apply_preceding_precision(fs, precision) ==
    IF precision >= 0 THEN [fs EXCEPT !.precision = precision] ELSE fs

\* ------------------------------------------------------------------------
\* The calls.  A call is an entry point, a template, the variadic pack, the
\* size given to new_snprintf, and what the environment grants: accepts
\* (writes the stream or descriptor takes), mallocs and reallocs.

IntArg(n) == [k |-> "int", n |-> n, s |-> <<>>]

StrArg(str) == [k |-> "str", n |-> 1, s |-> str]

NullArg == [k |-> "null", n |-> 0, s |-> <<>>]

PtrArg(address) == [k |-> "ptr", n |-> address, s |-> <<>>]

\* The largest size given to new_snprintf.
MaxSize == 4

\* The width and the precision written in the generated directives.
MaxWidth == 5

MaxPrec == 3

\* The addresses a %n argument can point at.
Addresses == {1, 2}

Call(entry, template, pack) ==
    [entry |-> entry, format |-> template, args |-> pack, size |-> 0,
     accepts |-> Unlimited, mallocs |-> Unlimited, reallocs |-> Unlimited]

\* The integer directives: every flag set, width, precision and type below,
\* written to a stream.
FlagSets ==
    {<<>>, <<"-">>, <<"+">>, <<" ">>, <<"#">>, <<"0">>, <<"-", "0">>,
     <<"+", "0">>, <<"#", "0">>, <<"+", " ">>}

Widths ==
    {[t |-> <<>>, a |-> <<>>],
     [t |-> <<ToString(MaxWidth)>>, a |-> <<>>],
     [t |-> <<"*">>, a |-> <<IntArg(MaxWidth - 1)>>],
     [t |-> <<"*">>, a |-> <<IntArg(0 - MaxWidth)>>]}

Precisions ==
    {[t |-> <<>>, a |-> <<>>],
     [t |-> <<".">>, a |-> <<>>],
     [t |-> <<".", "0">>, a |-> <<>>],
     [t |-> <<".", ToString(MaxPrec)>>, a |-> <<>>],
     [t |-> <<".", "*">>, a |-> <<IntArg(MaxPrec - 1)>>],
     [t |-> <<".", "*">>, a |-> <<IntArg(0 - 1)>>]}

SignedTypes == {"d", "i"}

UnsignedTypes == {"u", "o", "x", "X"}

IntegerTypes == SignedTypes \cup UnsignedTypes

IntegerCalls ==
    {Call("new_printf",
          <<"%">> \o f \o w.t \o p.t \o <<type>>,
          w.a \o p.a \o <<v>>) :
        f \in FlagSets, w \in Widths, p \in Precisions,
        type \in IntegerTypes, v \in {IntArg(0), IntArg(7), IntArg(300)}}
    \cup
    {Call("new_printf",
          <<"%">> \o f \o w.t \o p.t \o <<type>>,
          w.a \o p.a \o <<IntArg(0 - 300)>>) :
        f \in FlagSets, w \in Widths, p \in Precisions, type \in SignedTypes}

\* The length modifiers, on values that do and do not fit the narrow types.
Lengths ==
    {<<"h", "h">>, <<"h">>, <<"l">>, <<"l", "l">>, <<"j">>, <<"z">>, <<"t">>}

WideValues == {0, 127, 128, 255, 256, 300, 32768, 65535, 70000}

LengthCalls ==
    {Call("new_printf", <<"%">> \o f \o l \o <<type>>, <<IntArg(v)>>) :
        f \in {<<>>, <<"+">>}, l \in Lengths, type \in IntegerTypes,
        v \in WideValues}
    \cup
    {Call("new_printf", <<"%">> \o l \o <<type>>, <<IntArg(0 - v)>>) :
        l \in Lengths, type \in SignedTypes, v \in WideValues \cup {1, 129}}

\* Templates of text, escapes and each kind of directive.
TextCalls(entry) ==
    {    Call(entry, <<>>, <<>>),
     Call(entry, <<"h", "i">>, <<>>),
     Call(entry, <<"a", "%", "%", "b">>, <<>>),
     Call(entry, <<"%", "d">>, <<IntArg(42)>>),
     Call(entry, <<"%", "5", "d", "|">>, <<IntArg(42)>>),
     Call(entry, <<"%", "-", "5", "d", "|">>, <<IntArg(0 - 42)>>),
     Call(entry, <<"%", "s">>, <<StrArg(<<"h", "i">>)>>),
     Call(entry, <<"%", "s">>, <<NullArg>>),
     Call(entry, <<"%", ".", "1", "s">>, <<StrArg(<<"h", "i">>)>>),
     Call(entry, <<"%", "5", "s", "|">>, <<StrArg(<<"h", "i">>)>>),
     Call(entry, <<"%", "c">>, <<IntArg(65)>>),
     Call(entry, <<"%", "3", "c">>, <<IntArg(321)>>),
     Call(entry, <<"%", "p">>, <<PtrArg(255)>>),
     Call(entry, <<"%", "p">>, <<PtrArg(0)>>),
     Call(entry, <<"a", "b", "%", "n">>, <<PtrArg(1)>>),
     Call(entry, <<"a", "b", "%", "h", "h", "n">>, <<PtrArg(2)>>),
     Call(entry, <<"%", "n">>, <<PtrArg(0)>>),
     Call(entry, <<"%", "f">>, <<IntArg(1)>>),
     Call(entry, <<"%", "d", " ", "%", "x">>, <<IntArg(7), IntArg(255)>>),
     Call(entry, <<"%", "k">>, <<IntArg(1)>>),
     Call(entry, <<"%", "L", "d">>, <<IntArg(1)>>)}

\* Templates whose directives carry positions.
PositionalTemplates ==
    {    [format |-> <<"%", "2", "$", "s", " ", "%", "1", "$", "d">>,
      args |-> <<IntArg(7), StrArg(<<"h", "i">>)>>],
     [format |-> <<"%", "1", "$", "d", "%", "1", "$", "d">>,
      args |-> <<IntArg(7)>>],
     [format |-> <<"%", "2", "$", "d", " ", "%", "1", "$", "d", " ", "%", "2", "$", "d">>,
      args |-> <<IntArg(7), IntArg(0 - 3)>>],
     [format |-> <<"%", "2", "$", "*", "1", "$", "d", "|">>,
      args |-> <<IntArg(3), IntArg(7)>>],
     [format |-> <<"%", "2", "$", "*", "1", "$", "d", "|">>,
      args |-> <<IntArg(0 - 3), IntArg(7)>>],
     [format |-> <<"%", "1", "$", "h", "h", "d", " ", "%", "2", "$", "h", "h", "u">>,
      args |-> <<IntArg(0 - 1), IntArg(255)>>],
     [format |-> <<"%", "1", "$", "h", "h", "d", " ", "%", "2", "$", "h", "u">>,
      args |-> <<IntArg(300), IntArg(70000)>>],
     [format |-> <<"%", "1", "$", "h", "d", " ", "%", "2", "$", "h", "h", "u">>,
      args |-> <<IntArg(70000), IntArg(300)>>],
     [format |-> <<"%", "3", "$", "c", "%", "1", "$", "s", "%", "2", "$", "x">>,
      args |-> <<StrArg(<<"h", "i">>), IntArg(255), IntArg(65)>>],
     [format |-> <<"%", "1", "$", "d", " ", "%", "1", "$", "s">>,
      args |-> <<IntArg(7)>>],
     [format |-> <<"%", "1", "$", "d", " ", "%", "3", "$", "d">>,
      args |-> <<IntArg(7), IntArg(8), IntArg(9)>>],
     [format |-> <<"%", "1", "$", ".", "*", "2", "$", "d">>,
      args |-> <<IntArg(7), IntArg(3)>>],
     [format |-> <<"%", "1", "$", "*", "2", "$", ".", "*", "3", "$", "d">>,
      args |-> <<IntArg(7), IntArg(4), IntArg(2)>>],
     [format |-> <<"%", "9", "$", "d">>,
      args |-> <<IntArg(1), IntArg(2), IntArg(3), IntArg(4), IntArg(5), IntArg(6), IntArg(7), IntArg(8), IntArg(9)>>],
     [format |-> <<"%", "1", "$", "p", " ", "%", "2", "$", "n">>,
      args |-> <<PtrArg(255), PtrArg(1)>>],
     [format |-> <<"%", "1", "$", "f">>,
      args |-> <<IntArg(1)>>]}

PositionalCalls ==
    {[Call("new_printf", t.format, t.args) EXCEPT !.mallocs = m] :
        t \in PositionalTemplates, m \in {Unlimited, 0, 1, 2, 3}}

\* Templates that mix the two disciplines, or give a '*' the index of the
\* other discipline.
MixedTemplates ==
    {    [format |-> <<"%", "1", "$", "d", "%", "d">>,
      args |-> <<IntArg(7), IntArg(8)>>],
     [format |-> <<"%", "d", "%", "1", "$", "d">>,
      args |-> <<IntArg(7), IntArg(8)>>],
     [format |-> <<"%", "1", "$", "s", "|", "%", "s">>,
      args |-> <<StrArg(<<"h", "i">>), StrArg(<<"a">>)>>],
     [format |-> <<"a", "%", "d", " ", "%", "2", "$", "d">>,
      args |-> <<IntArg(7), IntArg(8)>>],
     [format |-> <<"%", "1", "$", "*", "d">>,
      args |-> <<IntArg(3), IntArg(7)>>],
     [format |-> <<"%", "1", "$", ".", "*", "d">>,
      args |-> <<IntArg(3), IntArg(7)>>],
     [format |-> <<"%", "2", "$", "*", "1", "$", ".", "*", "d">>,
      args |-> <<IntArg(3), IntArg(7)>>],
     [format |-> <<"%", "*", "1", "$", "d">>,
      args |-> <<IntArg(3), IntArg(7)>>],
     [format |-> <<"%", ".", "*", "1", "$", "d">>,
      args |-> <<IntArg(3), IntArg(7)>>],
     [format |-> <<"%", "*", "2", "$", "d">>,
      args |-> <<IntArg(3), IntArg(7)>>],
     [format |-> <<"%", "5", ".", "*", "2", "$", "d">>,
      args |-> <<IntArg(3), IntArg(7)>>]}

MixedCalls ==
    {Call(e, t.format, t.args) :
        e \in {"new_printf", "new_sprintf"}, t \in MixedTemplates}

\* Negative values under d and i with every length: the least value of signed
\* char, of short and of int, their neighbours, and -1 and -10; plain, in a
\* width, zero-filled and under a precision, and through a position.
NegativeValues ==
    {0 - 1, 0 - 10, 0 - 128, 0 - 129, 0 - 32768, 0 - 32769, INT_MIN + 1, INT_MIN}

NegativeForms ==
    {<<>>, <<"1", "3">>, <<"0", "1", "3">>, <<"-", "1", "3">>, <<".", "1", "2">>}

NegativeCalls ==
    {Call("new_printf", <<"%">> \o f \o l \o <<type>>, <<IntArg(v)>>) :
        f \in NegativeForms, l \in Lengths \cup {<<>>}, type \in SignedTypes,
        v \in NegativeValues}
    \cup
    {Call("new_printf", <<"%", "1", "$">> \o l \o <<"d">>, <<IntArg(v)>>) :
        l \in Lengths \cup {<<>>}, v \in NegativeValues}

\* The s directive on a null pointer, an empty string and strings shorter
\* and longer than the precisions, in and out of a width, in both disciplines.
StringPrecisions ==
    {<<>>, <<".">>, <<".", "0">>, <<".", "1">>, <<".", "4">>, <<".", "5">>,
     <<".", "6">>, <<".", "7">>}

StringArgs ==
    {NullArg, StrArg(<<>>), StrArg(<<"h", "i">>),
     StrArg(<<"a", "b", "c", "d", "e", "f", "g">>)}

StringCalls ==
    {Call("new_printf", <<"%">> \o w \o p \o <<"s">>, <<a>>) :
        w \in {<<>>, <<"8">>, <<"-", "8">>}, p \in StringPrecisions,
        a \in StringArgs}
    \cup
    {Call("new_printf", <<"%", "1", "$">> \o p \o <<"s">>, <<a>>) :
        p \in StringPrecisions, a \in StringArgs}
    \cup
    {Call("new_printf", <<"%", ".", "*", "s">>, <<IntArg(n), a>>) :
        n \in {0 - 1, 0, 2, 5, 6}, a \in StringArgs}

\* The n directive: after text, after a field, under every length, with
\* flags, width and precision of its own, twice in a template, through
\* positions, and on a null pointer; to a stream, a buffer and a fixed
\* buffer of every size.
CountTemplates ==
    {[format |-> <<"%", ".", "*", "d", ":", "%", "n">>,
      args |-> <<IntArg(4), IntArg(7), PtrArg(1)>>],
     [format |-> <<"a", "%", "n", "b", "c", "%", "n">>,
      args |-> <<PtrArg(1), PtrArg(2)>>],
     [format |-> <<"a", "b", "%", "5", "n", "|">>, args |-> <<PtrArg(1)>>],
     [format |-> <<"a", "b", "%", "-", "5", ".", "3", "n", "|">>,
      args |-> <<PtrArg(2)>>],
     [format |-> <<"%", "2", "$", "d", "%", "1", "$", "n">>,
      args |-> <<PtrArg(1), IntArg(42)>>],
     [format |-> <<"a", "b", "%", "n">>, args |-> <<PtrArg(0)>>],
     [format |-> <<"%", "d", "%", "h", "n">>, args |-> <<IntArg(7), PtrArg(0)>>],
     [format |-> <<"%", "2", "$", "d", "%", "1", "$", "n">>,
      args |-> <<PtrArg(0), IntArg(42)>>]}
    \cup
    {[format |-> <<"a", "b", "c", "%">> \o l \o <<"n">>, args |-> <<PtrArg(1)>>] :
        l \in Lengths \cup {<<>>}}

\* A count above what a signed char holds, reached in a fixed buffer.
LongCountTemplates ==
    {[format |-> <<"%", "2", "0", "0", "d", "%">> \o l \o <<"n">>,
      args |-> <<IntArg(7), PtrArg(2)>>] :
        l \in {<<>>, <<"h", "h">>, <<"h">>, <<"l">>}}

CountCalls ==
    {Call(e, t.format, t.args) :
        e \in {"new_printf", "new_sprintf"}, t \in CountTemplates}
    \cup
    {[Call("new_snprintf", t.format, t.args) EXCEPT !.size = sz] :
        t \in CountTemplates \cup LongCountTemplates, sz \in 0..MaxSize}

\* Escapes alone, before, after and between directives and text, in both
\* disciplines.
EscapeTemplates ==
    {[format |-> <<"%", "%">>, args |-> <<>>],
     [format |-> <<"%", "%", "%", "%">>, args |-> <<>>],
     [format |-> <<"1", "0", "0", "%", "%">>, args |-> <<>>],
     [format |-> <<"%", "%", "d">>, args |-> <<>>],
     [format |-> <<"%", "d", "%", "%">>, args |-> <<IntArg(7)>>],
     [format |-> <<"%", "%", "%", "d">>, args |-> <<IntArg(7)>>],
     [format |-> <<"%", "d", "%", "%", "%", "d">>, args |-> <<IntArg(7), IntArg(8)>>],
     [format |-> <<"%", "*", "d", "%", "%", "|">>, args |-> <<IntArg(3), IntArg(7)>>],
     [format |-> <<"a", "%", "%", "%", "s", "%", "%", "b">>,
      args |-> <<StrArg(<<"h", "i">>)>>],
     [format |-> <<"%", "%", "%", "1", "$", "d">>, args |-> <<IntArg(7)>>],
     [format |-> <<"%", "1", "$", "d", "%", "%">>, args |-> <<IntArg(7)>>],
     [format |-> <<"%", "2", "$", "d", "%", "%", "%", "1", "$", "d">>,
      args |-> <<IntArg(7), IntArg(8)>>],
     [format |-> <<"%", "1", "$", "s", "%", "%", "%", "%", "%", "2", "$", "d", "%", "%">>,
      args |-> <<StrArg(<<"h", "i">>), IntArg(7)>>]}

EscapeCalls ==
    {Call(e, t.format, t.args) :
        e \in {"new_printf", "new_sprintf"}, t \in EscapeTemplates}

\* Directives the code does not support: the floating-point types under every
\* length, letters that are no type, a template that ends inside a directive,
\* L with the other types, the lengths with p; alone, after text, with a
\* width, and with a position.
EveryLength == Lengths \cup {<<>>, <<"L">>}

FloatTypes == {"f", "F", "e", "E", "g", "G", "a", "A"}

\* An argument of the kind the type takes.
ArgumentFor(type) ==
    IF type = "s" THEN StrArg(<<"h", "i">>)
    ELSE IF type \in {"p", "n"} THEN PtrArg(1)
    ELSE IntArg(65)

UnsupportedDirectives ==
    {l \o <<type>> : l \in EveryLength, type \in FloatTypes}
    \cup {<<"L", type>> : type \in IntegerTypes \cup {"n", "c", "s", "p"}}
    \cup {l \o <<"p">> : l \in Lengths}
    \cup {<<"k">>, <<"y">>, <<"h", "q">>, <<"D">>, <<>>, <<"l">>}

UnsupportedCalls ==
    {Call(e, before \o <<"%">> \o w \o d, <<ArgumentFor(CharAt(d, Len(d)))>>) :
        e \in {"new_printf", "new_sprintf"}, before \in {<<>>, <<"a", "b">>},
        w \in {<<>>, <<"5">>, <<"1", "$">>}, d \in UnsupportedDirectives}

\* The c and s directives under every length modifier, in both disciplines.
TextLengthCalls ==
    {Call("new_printf", <<"%">> \o w \o l \o <<type>>, <<ArgumentFor(type)>>) :
        w \in {<<>>, <<"3">>, <<"1", "$">>}, l \in EveryLength,
        type \in {"c", "s"}}

\* Templates of the positional discipline where a slot is referenced more
\* than once: by two directives, by a directive and a '*' width, by a
\* directive and a '*' precision; with references that agree and that do not.
RepeatedSlotTemplates ==
    {[format |-> <<"%", "1", "$", "h", "h", "d", "%", "1", "$", "d">>,
      args |-> <<IntArg(7)>>],
     [format |-> <<"%", "1", "$", "s", "%", "1", "$", "c">>,
      args |-> <<StrArg(<<"h", "i">>)>>],
     [format |-> <<"%", "2", "$", "*", "1", "$", "d", "%", "1", "$", "s">>,
      args |-> <<IntArg(3), IntArg(7)>>],
     [format |-> <<"%", "2", "$", "*", "1", "$", "d", "%", "1", "$", "i">>,
      args |-> <<IntArg(3), IntArg(7)>>],
     [format |-> <<"%", "1", "$", "*", "2", "$", ".", "*", "2", "$", "d">>,
      args |-> <<IntArg(7), IntArg(3)>>],
     [format |-> <<"%", "1", "$", "*", "2", "$", ".", "*", "3", "$", "d", "%", "3", "$", "s">>,
      args |-> <<IntArg(7), IntArg(4), StrArg(<<"h", "i">>)>>],
     [format |-> <<"%", "1", "$", "*", "2", "$", ".", "*", "3", "$", "d", "%", "3", "$", "h", "h", "i">>,
      args |-> <<IntArg(7), IntArg(4), IntArg(2)>>],
     [format |-> <<"%", "1", "$", "*", "2", "$", ".", "*", "3", "$", "d", "|", "%", "3", "$", "i">>,
      args |-> <<IntArg(7), IntArg(4), IntArg(2)>>],
     [format |-> <<"%", "1", "$", ".", "*", "2", "$", "d", "%", "2", "$", "s">>,
      args |-> <<IntArg(7), StrArg(<<"h", "i">>)>>],
     [format |-> <<"%", "1", "$", ".", "*", "2", "$", "d", "%", "2", "$", "i">>,
      args |-> <<IntArg(7), IntArg(3)>>]}

RepeatedSlotCalls ==
    {Call(e, t.format, t.args) :
        e \in {"new_printf", "new_sprintf"}, t \in RepeatedSlotTemplates}

\* Templates of the positional discipline that leave a slot below their
\* highest index without reference, the highest index being that of a
\* directive, of a '*' width or of a '*' precision; after text, after an
\* escape, or first in the template.
UnreferencedSlotTemplates ==
    {[format |-> <<"a", "b", "%", "1", "$", "d", " ", "%", "3", "$", "d">>,
      args |-> <<IntArg(7), IntArg(8), IntArg(9)>>],
     [format |-> <<"%", "%", "%", "2", "$", "d">>,
      args |-> <<IntArg(7), IntArg(8)>>],
     [format |-> <<"%", "1", "$", "*", "3", "$", "d">>,
      args |-> <<IntArg(7), IntArg(8), IntArg(4)>>],
     [format |-> <<"%", "1", "$", "*", "2", "$", ".", "*", "4", "$", "d">>,
      args |-> <<IntArg(7), IntArg(4), IntArg(8), IntArg(2)>>],
     [format |-> <<"%", "1", "$", ".", "*", "3", "$", "d">>,
      args |-> <<IntArg(7), IntArg(8), IntArg(2)>>],
     [format |-> <<"x", "%", "3", "$", "s", "%", "1", "$", "c">>,
      args |-> <<IntArg(65), IntArg(8), StrArg(<<"h", "i">>)>>],
     [format |-> <<"a", "b", "%", "2", "$", "d", " ", "%", "1", "$", "d">>,
      args |-> <<IntArg(7), IntArg(8)>>]}

UnreferencedSlotCalls ==
    {Call(e, t.format, t.args) :
        e \in {"new_printf", "new_sprintf", "new_asprintf"},
        t \in UnreferencedSlotTemplates}

\* new_asprintf with fields that fill its first block exactly, go past it,
\* and go past the doubled block, on a heap that grants no realloc, one, or
\* all; and with a directive that is refused after the text before it.
OwnedBufferTemplates ==
    {[format |-> <<"%", "1", "6", "d">>, args |-> <<IntArg(7)>>],
     [format |-> <<"%", "1", "7", "d">>, args |-> <<IntArg(7)>>],
     [format |-> <<"%", "-", "1", "6", "d", "|", "%", "s">>,
      args |-> <<IntArg(7), StrArg(<<"h", "i">>)>>],
     [format |-> <<"%", "3", "2", "d">>, args |-> <<IntArg(0 - 7)>>],
     [format |-> <<"%", "3", "3", "d">>, args |-> <<IntArg(0 - 7)>>],
     [format |-> <<"a", "b", "%", "d", "%", "k">>, args |-> <<IntArg(7), IntArg(1)>>],
     [format |-> <<"%", "1", "7", "d", "%", "L", "d">>, args |-> <<IntArg(7), IntArg(1)>>],
     [format |-> <<"a", "%", "n">>, args |-> <<NullArg>>]}

OwnedBufferCalls ==
    {[Call("new_asprintf", t.format, t.args) EXCEPT !.mallocs = m, !.reallocs = r] :
        t \in OwnedBufferTemplates, m \in {Unlimited, 0}, r \in {Unlimited, 0, 1}}

\* A first directive whose position makes the table grow far: to 2^21, to
\* 2^30, and beyond what an int of 32 bits can double to.
LargeIndexes ==
    {<<"1", "0", "4", "8", "5", "7", "7">>,
     <<"1", "0", "7", "3", "7", "4", "1", "8", "2", "4">>,
     <<"1", "0", "7", "3", "7", "4", "1", "8", "2", "5">>,
     <<"2", "1", "4", "7", "4", "8", "3", "6", "4", "7">>}

LargeIndexCalls ==
    {Call(e, before \o <<"%">> \o n \o <<"$", "d">>, <<IntArg(7)>>) :
        e \in {"new_printf", "new_sprintf"}, before \in {<<>>, <<"a">>},
        n \in LargeIndexes}

\* A '*' width of every sign, the minimum int among them, into a buffer that
\* holds less than the field.
StarWidthCalls ==
    {[Call("new_snprintf", <<"%">> \o f \o <<"*", "d">>, <<IntArg(w), IntArg(5)>>)
         EXCEPT !.size = sz] :
        f \in {<<>>, <<"-">>, <<"0">>},
        w \in {INT_MIN, 0 - MaxWidth, 0 - 1, 0, MaxWidth}, sz \in 0..MaxSize}

\* The entry points on the text templates: the fixed buffer of every size,
\* a stream and a descriptor that stop taking writes, a heap that stops
\* granting blocks.
SinkCalls ==
    {[c EXCEPT !.size = sz] : c \in TextCalls("new_snprintf"), sz \in 0..MaxSize}
    \cup TextCalls("new_sprintf")
    \cup {[c EXCEPT !.accepts = a] :
             c \in TextCalls("new_printf") \cup TextCalls("new_vdprintf"),
             a \in {Unlimited, 0, 2}}
    \cup {[c EXCEPT !.mallocs = m, !.reallocs = r] :
             c \in TextCalls("new_asprintf"),
             m \in {Unlimited, 0}, r \in {Unlimited, 0}}
    \cup TextCalls("new_dprintf")

Calls ==
    IntegerCalls \cup LengthCalls \cup PositionalCalls \cup MixedCalls
    \cup StarWidthCalls \cup SinkCalls \cup NegativeCalls \cup StringCalls
    \cup CountCalls \cup EscapeCalls \cup UnsupportedCalls \cup TextLengthCalls
    \cup RepeatedSlotCalls \cup UnreferencedSlotCalls \cup OwnedBufferCalls
    \cup LargeIndexCalls

\* ------------------------------------------------------------------------
\* The state of one call.
\*   format, args, entry, size   the call, as in Call above,
\*   mallocs     how many more malloc and realloc calls of the table succeed,
\*   output      the output_specifier and what is behind it,
\*   str         the bytes the call has put in the caller's buffer,
\*   strp        *strp of new_asprintf: "unset", "NULL" or "block",
\*   pc          where the call stands,
\*   fpos        the format pointer of generic_printf, as an index,
\*   fs, using_positions, first_element, pia, position_count, result
\*               the locals of generic_printf,
\*   ap          the va_list: the index of the next value of args,
\*   ret         what the entry point returns,
\*   mark        characters_written when the current directive was read,
\*   memory      what the %n pointers point at,
\*   ub          whether the call has read or written outside an object,
\*   earlier     what an earlier call with the same template and arguments
\*               gave, when the caller made one.
VARIABLES format, args, entry, size, mallocs, output, str, strp, pc, fpos, fs,
          using_positions, first_element, pia, position_count, ap, result,
          ret, mark, memory, ub, earlier, current_size

vars ==
    <<format, args, entry, size, mallocs, output, str, strp, pc, fpos, fs,
      using_positions, first_element, pia, position_count, ap, result, ret,
      mark, memory, ub, earlier, current_size>>

\* What no step of a call changes but those that name it: the call, and
\* current_size, the local of pia_check_size_and_update.
call_vars == <<format, args, entry, size, earlier, current_size>>

positional_vars == <<using_positions, first_element, position_count>>

InitOf(calls) ==
    \E c \in calls :
        /\ format = c.format
        /\ args = c.args
        /\ entry = c.entry
        /\ size = c.size
        /\ mallocs = c.mallocs
        /\ output = [type |-> "unset", stream |-> "NULL", fd |-> 0,
                     string |-> <<>>, allocated_size |-> 0,
                     character_limit |-> 0, characters_written |-> 0,
                     sent |-> <<>>, accepts |-> c.accepts, block |-> 0,
                     block_state |-> "none", reallocs |-> c.reallocs,
                     ub |-> FALSE, overrun |-> FALSE, calls |-> 0]
        /\ str = <<>>
        /\ strp = "unset"
        /\ pc = "call"
        /\ fpos = 1
        /\ fs = EmptySpecifier
        /\ using_positions = FALSE
        /\ first_element = TRUE
        /\ pia = [size |-> 0, array |-> <<>>, array_state |-> "none",
                 outside |-> FALSE]
        /\ position_count = 0
        /\ ap = 1
        /\ result = FALSE
        /\ ret = 0
        /\ mark = 0
        /\ memory = [a \in Addresses |-> 0]
        /\ ub = FALSE
        /\ earlier = [made |-> FALSE, bytes |-> <<>>, ret |-> 0]
        /\ current_size = 0

Init == InitOf(Calls)

\* ------------------------------------------------------------------------
\* printf.c: the entry points up to their call of generic_printf.

\* What an entry point sets of the output_specifier.
Setup(type, stream, allocated_size, character_limit) ==
    [output EXCEPT !.type = type, !.stream = stream, !.fd = 0,
                   !.string = <<>>, !.allocated_size = allocated_size,
                   !.character_limit = character_limit,
                   !.characters_written = 0]

\* new_printf, and new_vprintf, new_fprintf, new_vfprintf, which differ in
\* where the stream and the va_list come from.
new_printf ==
    /\ pc = "call" /\ entry = "new_printf"
    /\ output' = Setup("OUTPUT_stream", "FILE", 0, SIZE_MAX)
    /\ pc' = "loop"
    /\ UNCHANGED <<call_vars, positional_vars, mallocs, str, strp, fpos, fs,
                   pia, ap, result, ret, mark, memory, ub>>

\* new_sprintf and new_vsprintf.
new_sprintf ==
    /\ pc = "call" /\ entry = "new_sprintf"
    /\ output' = Setup("OUTPUT_string", "NULL", 0, SIZE_MAX)
    /\ pc' = "loop"
    /\ UNCHANGED <<call_vars, positional_vars, mallocs, str, strp, fpos, fs,
                   pia, ap, result, ret, mark, memory, ub>>

\* new_snprintf and new_vsnprintf.
new_snprintf ==
    /\ pc = "call" /\ entry = "new_snprintf"
    /\ output' = Setup("OUTPUT_string", "NULL", 0, size)
    /\ pc' = "loop"
    /\ UNCHANGED <<call_vars, positional_vars, mallocs, str, strp, fpos, fs,
                   pia, ap, result, ret, mark, memory, ub>>

BASE_ALLOCATED_STRING_SIZE == 16

\* new_asprintf and new_vasprintf.
new_asprintf ==
    /\ pc = "call" /\ entry = "new_asprintf"
    /\ IF mallocs = 0
       THEN /\ output' = Setup("OUTPUT_allocated_string", "NULL",
                               BASE_ALLOCATED_STRING_SIZE, SIZE_MAX)
            /\ strp' = "NULL"
            /\ ret' = 0 - 1
            /\ pc' = "done"
            /\ mallocs' = mallocs
       ELSE /\ output' = [Setup("OUTPUT_allocated_string", "NULL",
                                BASE_ALLOCATED_STRING_SIZE, SIZE_MAX)
                             EXCEPT !.block = BASE_ALLOCATED_STRING_SIZE,
                                    !.block_state = "live"]
            /\ strp' = strp
            /\ ret' = ret
            /\ pc' = "loop"
            /\ mallocs' = Take(mallocs)
    /\ UNCHANGED <<call_vars, positional_vars, str, fpos, fs, pia, ap, result,
                   mark, memory, ub>>

new_dprintf ==
    /\ pc = "call" /\ entry = "new_dprintf"
    /\ output' = Setup("OUTPUT_stream", "NULL", 0, SIZE_MAX)
    /\ pc' = "loop"
    /\ UNCHANGED <<call_vars, positional_vars, mallocs, str, strp, fpos, fs,
                   pia, ap, result, ret, mark, memory, ub>>

new_vdprintf ==
    /\ pc = "call" /\ entry = "new_vdprintf"
    /\ output' = Setup("OUTPUT_file_descriptor", "NULL", 0, SIZE_MAX)
    /\ pc' = "loop"
    /\ UNCHANGED <<call_vars, positional_vars, mallocs, str, strp, fpos, fs,
                   pia, ap, result, ret, mark, memory, ub>>

\* ------------------------------------------------------------------------
\* printf.c: generic_printf, one action for each branch of its loop and each
\* stage of a directive.

\* The table after "pop_and_store_cleanup(&pia, position_count);
\* free(pia.array);", which the exits run when using_positions.
CleanedUp ==
    IF using_positions THEN Freed(pop_and_store_cleanup(pia, position_count))
    ELSE pia

\* What follows a writer's [ok, out]: on to `next`, or the exit with cleanup.
AfterWrite(r, next) ==
    /\ output' = r.out
    /\ ub' = (ub \/ r.out.ub)
    /\ IF r.ok
       THEN /\ pc' = next
            /\ pia' = pia
            /\ result' = result
       ELSE /\ pc' = "return"
            /\ pia' = CleanedUp
            /\ result' = FALSE

\* What EscapedPercent would be if the escape took a value of the pack, as a
\* directive does.
escape_pops_argument ==
    /\ pc = "loop"
    /\ CharAt(format, fpos) = "%" /\ CharAt(format, fpos + 1) = "%"
    /\ LET r == printf_output(output, "%")
       IN  /\ output' = r.out
           /\ ub' = (ub \/ r.out.ub)
           /\ IF r.ok
              THEN /\ fpos' = fpos + 2
                   /\ pc' = "loop"
                   /\ result' = result
              ELSE /\ fpos' = fpos
                   /\ pc' = "return"
                   /\ result' = FALSE
    /\ ap' = ap + 1
    /\ UNCHANGED <<call_vars, positional_vars, mallocs, str, strp, fs, pia,
                   ret, mark, memory>>

\* "%%": one '%' is written.  A failed write returns without cleanup.
EscapedPercent ==
    /\ pc = "loop"
    /\ CharAt(format, fpos) = "%" /\ CharAt(format, fpos + 1) = "%"
    /\ LET r == printf_output(output, "%")
       IN  /\ output' = r.out
           /\ ub' = (ub \/ r.out.ub)
           /\ IF r.ok
              THEN /\ fpos' = fpos + 2
                   /\ pc' = "loop"
                   /\ result' = result
              ELSE /\ fpos' = fpos
                   /\ pc' = "return"
                   /\ result' = FALSE
    /\ UNCHANGED <<call_vars, positional_vars, mallocs, str, strp, fs, pia, ap,
                   ret, mark, memory>>

\* "Just a normal letter."
NormalLetter ==
    /\ pc = "loop"
    /\ CharAt(format, fpos) \notin {NUL, "%"}
    /\ LET r == printf_output(output, CharAt(format, fpos))
       IN  /\ AfterWrite(r, "loop")
           /\ fpos' = IF r.ok THEN fpos + 1 ELSE fpos
    /\ UNCHANGED <<call_vars, positional_vars, mallocs, str, strp, fs, ap, ret,
                   mark, memory>>

\* The end of the template: cleanup and "return true".
EndOfFormat ==
    /\ pc = "loop"
    /\ CharAt(format, fpos) = NUL
    /\ pia' = CleanedUp
    /\ result' = TRUE
    /\ pc' = "return"
    /\ UNCHANGED <<call_vars, positional_vars, mallocs, output, str, strp, fpos,
                   fs, ap, ret, mark, memory, ub>>

\* "Starting a format specifier": format++ and read_format_string.
ReadSpecifier ==
    /\ pc = "loop"
    /\ CharAt(format, fpos) = "%" /\ CharAt(format, fpos + 1) # "%"
    /\ LET read(p) ==
               /\ fs' = p.fs
               /\ IF format_error_is_error(p.error)
                  THEN /\ pia' = CleanedUp
                       /\ result' = FALSE
                       /\ pc' = "return"
                  ELSE /\ pia' = pia
                       /\ result' = result
                       /\ pc' = "parsed"
       IN  read(read_format_string(format, fpos + 1))
    /\ fpos' = fpos + 1
    /\ mark' = output.characters_written
    /\ UNCHANGED <<call_vars, positional_vars, mallocs, output, str, strp, ap,
                   ret, memory, ub>>

\* The first directive has a position for which the table has to grow past
\* TableLimit (and no '*', so that it is the position that makes it grow).
LargeFirstIndex ==
    /\ first_element /\ fs.position > TableLimit /\ mallocs # 0
    /\ fs.preceding_width = 0 /\ fs.preceding_precision = 0

\* "Determine whether we are using positions" for such a directive, up to
\* the loop of pia_check_size_and_update: pia_initialise has given the table
\* of DEFAULT_PIA_SIZE slots and current_size is its size.
GrowthStarts ==
    /\ pc = "parsed" /\ LargeFirstIndex
    /\ using_positions' = TRUE
    /\ pia' = pia_initialise(pia, mallocs).pia
    /\ mallocs' = pia_initialise(pia, mallocs).mallocs
    /\ current_size' = DEFAULT_PIA_SIZE
    /\ pc' = "growing"
    /\ result' = FALSE
    /\ UNCHANGED <<format, args, entry, size, earlier, first_element,
                   position_count, output, str, strp, fpos, fs, ap, ret, mark,
                   memory, ub>>

\* One turn of "while (current_size < required_size) current_size *= 2".
GrowthDoubles ==
    /\ pc = "growing" /\ current_size < fs.position
    /\ current_size' = twice_int(current_size)
    /\ ub' = (ub \/ twice_overflows(current_size))
    /\ UNCHANGED <<format, args, entry, size, earlier, positional_vars, mallocs,
                   output, str, strp, pc, fpos, fs, pia, ap, result, ret, mark,
                   memory>>

\* The loop is left.  Whether realloc refuses the table of more than
\* TableLimit slots (pia_check_size_and_update gives false) or grants it (the
\* slots below the position stay TYPE_ERROR and the check for holes fails),
\* the pre-scan frees the table and generic_printf returns false.
GrowthEnds ==
    /\ pc = "growing" /\ current_size >= fs.position
    /\ pia' = Freed(pia)
    /\ pc' = "return"
    /\ UNCHANGED <<call_vars, positional_vars, mallocs, output, str, strp, fpos,
                   fs, ap, result, ret, mark, memory, ub>>

\* "Determine whether we are using positions", with the pre-scan and the
\* pull of the pack on the first directive, and the consistency check.
DecidePositions ==
    /\ pc = "parsed" /\ ~LargeFirstIndex
    /\ \E passes \in BOOLEAN :
        LET mixed == inconsistent_positions(fs, using_positions)
            filled(scan, fill) ==
                IF ~fill.ok
                THEN /\ pia' = Freed(fill.pia)
                     /\ mallocs' = fill.mallocs
                     /\ ap' = fill.ap
                     /\ pc' = "return"
                     /\ UNCHANGED first_element
                ELSE /\ pia' = fill.pia
                     /\ mallocs' = fill.mallocs
                     /\ ap' = fill.ap
                     /\ first_element' = FALSE
                     /\ pc' = "width"
            scanned(scan) ==
                /\ using_positions' = TRUE
                /\ ub' = (ub \/ scan.ub)
                /\ IF ~scan.ok
                   THEN /\ pia' = scan.pia
                        /\ mallocs' = scan.mallocs
                        /\ pc' = "return"
                        /\ UNCHANGED <<position_count, ap, first_element>>
                   ELSE /\ position_count' = scan.max
                        /\ \E fill \in {pop_and_store_argument_list(scan.pia,
                                      scan.max, args, ap, scan.mallocs, 0)} :
                              filled(scan, fill)
        IN  IF first_element /\ fs.position # 0
            THEN \E scan \in {parse_format_string_for_positions(format, pia,
                                                                 mallocs, passes)} :
                     scanned(scan)
            ELSE /\ first_element' = FALSE
                 /\ pia' = IF mixed THEN CleanedUp ELSE pia
                 /\ pc' = IF mixed THEN "return" ELSE "width"
                 /\ UNCHANGED <<using_positions, position_count, mallocs, ap, ub>>
    /\ result' = FALSE
    /\ UNCHANGED <<call_vars, output, str, strp, fpos, fs, ret, mark, memory>>

\* "Preceding width and positional preceding width."
PrecedingWidth ==
    /\ pc = "width"
    /\ LET r == pop_or_load_width_precision(args, ap, using_positions, pia.array,
                                            fs.preceding_width)
           source == star_source(args, ap, using_positions, pia.array,
                                 fs.preceding_width)
       IN  IF fs.preceding_width # 0
           THEN /\ ap' = r.ap
                /\ \E width \in read_as_int(source, r.value) :
                      fs' = apply_preceding_width(fs, width)
                /\ ub' = (ub \/ source.k # "int")
           ELSE UNCHANGED <<ap, fs, ub>>
    /\ pc' = "precision"
    /\ UNCHANGED <<call_vars, positional_vars, mallocs, output, str, strp, fpos,
                   pia, result, ret, mark, memory>>

\* "Preceding precision or positional preceding precision."
PrecedingPrecision ==
    /\ pc = "precision"
    /\ LET r == pop_or_load_width_precision(args, ap, using_positions, pia.array,
                                            fs.preceding_precision)
           source == star_source(args, ap, using_positions, pia.array,
                                 fs.preceding_precision)
       IN  IF fs.preceding_precision # 0
           THEN /\ ap' = r.ap
                /\ \E precision \in read_as_int(source, r.value) :
                      fs' = apply_preceding_precision(fs, precision)
                /\ ub' = (ub \/ source.k # "int")
           ELSE UNCHANGED <<ap, fs, ub>>
    /\ pc' = "check"
    /\ UNCHANGED <<call_vars, positional_vars, mallocs, output, str, strp, fpos,
                   pia, result, ret, mark, memory>>

\* The call of format_string_check_unused_values before the switch.
CheckUnusedValues ==
    /\ pc = "check"
    /\ fs' = format_string_check_unused_values(fs)
    /\ pc' = "switch"
    /\ UNCHANGED <<call_vars, positional_vars, mallocs, output, str, strp, fpos,
                   pia, ap, result, ret, mark, memory, ub>>

\* case TYPE_d, TYPE_i.
PrintSigned ==
    /\ pc = "switch"
    /\ fs.type \in {"d", "i"}
    /\ LET v == pop_or_load_integer(fs, args, ap, using_positions, pia.array)
           int_value == v.value.n
       IN  /\ ap' = v.ap
           /\ AfterWrite(IF int_value >= 0
                         THEN write_integer_positive(output, int_value, fs)
                         ELSE write_decimal_negative(output, int_value, fs),
                         "printed")
    /\ UNCHANGED <<call_vars, positional_vars, mallocs, str, strp, fpos, fs, ret,
                   mark, memory>>

\* case TYPE_o, TYPE_x, TYPE_X, TYPE_u.
PrintUnsigned ==
    /\ pc = "switch"
    /\ fs.type \in {"o", "x", "X", "u"}
    /\ LET v == pop_or_load_unsigned_integer(fs, args, ap, using_positions,
                                             pia.array)
           uint_value == v.value.n
       IN  /\ ap' = v.ap
           /\ fs' = IF fs.type = "o" THEN write_octal_fs(uint_value, fs) ELSE fs
           /\ AfterWrite(write_integer_positive(output, uint_value, fs), "printed")
    /\ UNCHANGED <<call_vars, positional_vars, mallocs, str, strp, fpos, ret,
                   mark, memory>>

\* case TYPE_f .. TYPE_A: "return false", with no cleanup.
PrintFloatingPoint ==
    /\ pc = "switch"
    /\ fs.type \in {"f", "F", "e", "E", "g", "G", "a", "A"}
    /\ result' = FALSE
    /\ pc' = "return"
    /\ UNCHANGED <<call_vars, positional_vars, mallocs, output, str, strp, fpos,
                   fs, pia, ap, ret, mark, memory, ub>>

\* case TYPE_c.
PrintCharacter ==
    /\ pc = "switch"
    /\ fs.type = "c"
    /\ LET v == pop_or_load_character(fs, args, ap, using_positions, pia.array)
       IN  /\ ap' = v.ap
           /\ AfterWrite(write_character(output, v.value.n, fs), "printed")
    /\ UNCHANGED <<call_vars, positional_vars, mallocs, str, strp, fpos, fs, ret,
                   mark, memory>>

\* case TYPE_s.
PrintString ==
    /\ pc = "switch"
    /\ fs.type = "s"
    /\ LET v == pop_or_load_pointer(fs, args, ap, using_positions, pia.array)
       IN  /\ ap' = v.ap
           /\ AfterWrite(write_string(output, v.value, fs), "printed")
    /\ UNCHANGED <<call_vars, positional_vars, mallocs, str, strp, fpos, fs, ret,
                   mark, memory>>

\* case TYPE_p.
PrintPointer ==
    /\ pc = "switch"
    /\ fs.type = "p"
    /\ LET v == pop_or_load_pointer(fs, args, ap, using_positions, pia.array)
       IN  /\ ap' = v.ap
           /\ AfterWrite(write_pointer(output, v.value, fs), "printed")
    /\ UNCHANGED <<call_vars, positional_vars, mallocs, str, strp, fpos, fs, ret,
                   mark, memory>>

\* case TYPE_n.
StoreCount ==
    /\ pc = "switch"
    /\ fs.type = "n"
    /\ LET v == pop_or_load_pointer(fs, args, ap, using_positions, pia.array)
           w == write_characters_written(output, v.value, fs, memory)
       IN  /\ ap' = v.ap
           /\ memory' = w.memory
           /\ AfterWrite([ok |-> w.ok, out |-> output], "printed")
    /\ UNCHANGED <<call_vars, positional_vars, mallocs, str, strp, fpos, fs, ret,
                   mark>>

\* "format += fs.input_length".
AdvanceFormat ==
    /\ pc = "printed"
    /\ fpos' = fpos + fs.input_length
    /\ pc' = "loop"
    /\ UNCHANGED <<call_vars, positional_vars, mallocs, output, str, strp, fs,
                   pia, ap, result, ret, mark, memory, ub>>

\* ------------------------------------------------------------------------
\* printf.c: the entry points after generic_printf has returned.

ReturnValue == IF result THEN output.characters_written ELSE 0 - 1

new_printf_return ==
    /\ pc = "return" /\ entry = "new_printf"
    /\ ret' = ReturnValue
    /\ pc' = "done"
    /\ UNCHANGED <<call_vars, positional_vars, mallocs, output, str, strp, fpos,
                   fs, pia, ap, result, mark, memory, ub>>

\* "*(output.string) = 0" through the moving pointer.
new_sprintf_return ==
    /\ pc = "return" /\ entry = "new_sprintf"
    /\ str' = IF result THEN Append(output.string, NUL) ELSE output.string
    /\ ret' = ReturnValue
    /\ pc' = "done"
    /\ UNCHANGED <<call_vars, positional_vars, mallocs, output, strp, fpos, fs,
                   pia, ap, result, mark, memory, ub>>

new_snprintf_return ==
    /\ pc = "return" /\ entry = "new_snprintf"
    /\ str' = IF result /\ size # 0 THEN Append(output.string, NUL)
              ELSE output.string
    /\ ret' = ReturnValue
    /\ pc' = "done"
    /\ UNCHANGED <<call_vars, positional_vars, mallocs, output, strp, fpos, fs,
                   pia, ap, result, mark, memory, ub>>

\* The store "*(output.string + output.characters_written) = '\0'".
terminated(o) == [o EXCEPT !.overrun = @ \/ o.characters_written >= o.block]

\* new_asprintf's return, were it to free the block whenever generic_printf
\* gives false.
new_asprintf_return_frees ==
    /\ pc = "return" /\ entry = "new_asprintf"
    /\ ~result
    /\ output' = [output EXCEPT !.block_state = release(@)]
    /\ strp' = "NULL"
    /\ ret' = 0 - 1
    /\ pc' = "done"
    /\ UNCHANGED <<call_vars, positional_vars, mallocs, str, fpos, fs, pia, ap,
                   result, mark, memory, ub>>

new_asprintf_return ==
    /\ pc = "return" /\ entry = "new_asprintf"
    /\ LET grow == output.characters_written >= output.allocated_size
       IN  IF ~result
           THEN /\ strp' = "NULL"
                /\ ret' = 0 - 1
                /\ UNCHANGED <<output, str>>
           ELSE IF grow /\ output.reallocs = 0
           THEN /\ output' = [output EXCEPT !.block_state = release(@)]
                /\ strp' = "NULL"
                /\ ret' = 0 - 1
                /\ str' = str
           ELSE /\ output' = terminated(IF grow
                                        THEN [output EXCEPT
                                                 !.block = output.allocated_size + 1,
                                                 !.allocated_size = @ * 2,
                                                 !.reallocs = Take(@)]
                                        ELSE output)
                /\ str' = Append(output.string, NUL)
                /\ strp' = "block"
                /\ ret' = output.characters_written
    /\ pc' = "done"
    /\ UNCHANGED <<call_vars, positional_vars, mallocs, fpos, fs, pia, ap,
                   result, mark, memory, ub>>

new_dprintf_return ==
    /\ pc = "return" /\ entry = "new_dprintf"
    /\ ret' = ReturnValue
    /\ pc' = "done"
    /\ UNCHANGED <<call_vars, positional_vars, mallocs, output, str, strp, fpos,
                   fs, pia, ap, result, mark, memory, ub>>

new_vdprintf_return ==
    /\ pc = "return" /\ entry = "new_vdprintf"
    /\ ret' = ReturnValue
    /\ pc' = "done"
    /\ UNCHANGED <<call_vars, positional_vars, mallocs, output, str, strp, fpos,
                   fs, pia, ap, result, mark, memory, ub>>

Next ==
    \/ new_printf
    \/ new_sprintf
    \/ new_snprintf
    \/ new_asprintf
    \/ new_dprintf
    \/ new_vdprintf
    \/ EscapedPercent
    \/ NormalLetter
    \/ EndOfFormat
    \/ ReadSpecifier
    \/ DecidePositions
    \/ GrowthStarts
    \/ GrowthDoubles
    \/ GrowthEnds
    \/ PrecedingWidth
    \/ PrecedingPrecision
    \/ CheckUnusedValues
    \/ PrintSigned
    \/ PrintUnsigned
    \/ PrintFloatingPoint
    \/ PrintCharacter
    \/ PrintString
    \/ PrintPointer
    \/ StoreCount
    \/ AdvanceFormat
    \/ new_printf_return
    \/ new_sprintf_return
    \/ new_snprintf_return
    \/ new_asprintf_return
    \/ new_dprintf_return
    \/ new_vdprintf_return

Spec == Init /\ [][Next]_vars

\* ------------------------------------------------------------------------
\* A caller that, after new_printf has succeeded, gives the same template and
\* arguments to new_snprintf with a buffer of the returned length + 1 or more,
\* and keeps what the stream received and what new_printf returned.
SameCallToBuffer ==
    /\ pc = "done" /\ entry = "new_printf" /\ ~earlier.made
    /\ ret >= 0 /\ ~ub /\ mallocs = Unlimited /\ output.accepts = Unlimited
    /\ earlier' = [made |-> TRUE, bytes |-> output.sent, ret |-> ret]
    /\ entry' = "new_snprintf"
    /\ \E room \in 1..2 : size' = ret + room
    /\ output' = [type |-> "unset", stream |-> "NULL", fd |-> 0,
                  string |-> <<>>, allocated_size |-> 0,
                  character_limit |-> 0, characters_written |-> 0,
                  sent |-> <<>>, accepts |-> Unlimited, block |-> 0,
                  block_state |-> "none", reallocs |-> Unlimited,
                  ub |-> FALSE, overrun |-> FALSE, calls |-> 0]
    /\ str' = <<>>
    /\ strp' = "unset"
    /\ pc' = "call"
    /\ fpos' = 1
    /\ fs' = EmptySpecifier
    /\ using_positions' = FALSE
    /\ first_element' = TRUE
    /\ pia' = [size |-> 0, array |-> <<>>, array_state |-> "none",
                 outside |-> FALSE]
    /\ position_count' = 0
    /\ ap' = 1
    /\ result' = FALSE
    /\ ret' = 0
    /\ mark' = 0
    /\ memory' = [a \in Addresses |-> 0]
    /\ ub' = FALSE
    /\ UNCHANGED <<format, args, mallocs, current_size>>

NextWithSecondCall == Next \/ SameCallToBuffer

SpecWithSecondCall == Init /\ [][NextWithSecondCall]_vars

\* ------------------------------------------------------------------------
\* A call that is not left waiting: whenever a step of it is possible, one is
\* taken in the end (the call runs on a thread that is scheduled).
\* It is followed on calls of Calls that the heap, the stream and the
\* descriptor refuse nothing: new_printf on one template for each branch of
\* generic_printf's loop and on the large positions, the other entry points
\* on a template of two directives.
TemplatesToTheEnd ==
    {<<"a", "%", "%", "b">>, <<"%", "d", " ", "%", "x">>, <<"%", "s">>,
     <<"%", "c">>, <<"%", "p">>, <<"a", "b", "%", "n">>, <<"%", "f">>,
     <<"%", "2", "$", "s", " ", "%", "1", "$", "d">>}
    \cup {<<"%">> \o n \o <<"$", "d">> : n \in LargeIndexes}

CallsToTheEnd ==
    {c \in Calls :
        /\ c.format \in TemplatesToTheEnd
        /\ c.entry = "new_printf" \/ c.format = <<"%", "d", " ", "%", "x">>
        /\ c.accepts = Unlimited /\ c.mallocs = Unlimited
        /\ c.reallocs = Unlimited /\ c.size \in {0, MaxSize}}

SpecToTheEnd == InitOf(CallsToTheEnd) /\ [][Next]_vars /\ WF_vars(Next)

\* ------------------------------------------------------------------------
\* What the properties are stated with.  The values and texts below are
\* computed from the call (format, args), not by the emitters.

Max(a, b) == IF a > b THEN a ELSE b

Min(a, b) == IF a < b THEN a ELSE b

\* The bytes the sink holds: the buffer behind a string sink, else what the
\* stream or descriptor has received.
Emitted ==
    IF output.type \in {"OUTPUT_string", "OUTPUT_allocated_string"}
    THEN output.string ELSE output.sent

\* A directive has just been emitted to a sink that keeps every byte.
AtField ==
    /\ pc = "printed"
    /\ entry \in {"new_printf", "new_sprintf", "new_asprintf", "new_vdprintf"}

\* The bytes of the directive just emitted.
Field == SubSeq(Emitted, mark + 1, Len(Emitted))

\* The directive being processed as it stands in the template.
Parsed == read_format_string(format, fpos).fs

\* The value of the pack the directive being processed prints.
BoundArg == IF using_positions THEN args[fs.position] ELSE args[ap - 1]

\* An int brought into the range of a signed, or an unsigned, type of
\* `modulus` values.
WrapSigned(n, modulus) == ((n + modulus \div 2) % modulus) - modulus \div 2

WrapUnsigned(n, modulus) == n % modulus

\* The value the directive renders: the bound argument, narrowed by hh or h.
Rendered ==
    LET n == BoundArg.n
        signed == fs.type \in SignedTypes
    IN  IF fs.length = "hh"
        THEN (IF signed THEN WrapSigned(n, 256) ELSE WrapUnsigned(n, 256))
        ELSE IF fs.length = "h"
        THEN (IF signed THEN WrapSigned(n, 65536) ELSE WrapUnsigned(n, 65536))
        ELSE n

BaseOf(type) == IF type = "o" THEN 8 ELSE IF type \in {"x", "X"} THEN 16 ELSE 10

DigitChar(d, type) ==
    IF d < 10 THEN ToString(d)
    ELSE IF type = "X" THEN <<"A", "B", "C", "D", "E", "F">>[d - 9]
    ELSE <<"a", "b", "c", "d", "e", "f">>[d - 9]

\* The numeral of n >= 0 in the base of the type, most significant digit
\* first.
RECURSIVE Numeral(_, _)
Numeral(n, type) ==
    IF n < BaseOf(type) THEN <<DigitChar(n, type)>>
    ELSE Append(Numeral(n \div BaseOf(type), type), DigitChar(n % BaseOf(type), type))

\* The numeral of the magnitude of n.  That of a negative n is put together
\* from its last digit and the numeral of the rest, so that the magnitude of
\* the least int, which is no int, is never needed as a number.
NumeralOfMagnitude(n, type) ==
    IF n >= 0 THEN Numeral(n, type)
    ELSE LET last == (10 - (n % 10)) % 10
             rest == 0 - ((n + last) \div 10)
         IN  IF rest = 0 THEN <<ToString(last)>>
             ELSE Append(Numeral(rest, "d"), ToString(last))

Repeat(c, n) == [k \in 1..n |-> c]

\* The digits the field is to show: none for value 0 under precision 0, else
\* the numeral zero-extended to the precision.
ExpectedDigits ==
    LET numeral == NumeralOfMagnitude(Rendered, fs.type)
    IN  IF fs.precision = 0 /\ Rendered = 0 THEN <<>>
        ELSE Repeat("0", fs.precision - Len(numeral)) \o numeral

\* The sign or prefix in front of the digits: '-' for a negative decimal,
\* '+' or ' ' for a non-negative decimal under those flags, "0x" or "0X" for
\* hexadecimal under '#', and "0" for octal under '#' unless the precision
\* already puts a zero in front.
ExpectedPrefix ==
    IF fs.type \in {"d", "i", "u"}
    THEN (IF Rendered < 0 THEN <<"-">>
          ELSE IF Parsed.always_sign THEN <<"+">>
          ELSE IF Parsed.empty_sign THEN <<" ">>
          ELSE <<>>)
    ELSE IF fs.type = "x" /\ Parsed.alternate_form THEN <<"0", "x">>
    ELSE IF fs.type = "X" /\ Parsed.alternate_form THEN <<"0", "X">>
    ELSE IF /\ fs.type = "o" /\ Parsed.alternate_form
            /\ fs.precision <= Len(NumeralOfMagnitude(Rendered, fs.type))
    THEN <<"0">>
    ELSE <<>>

\* The zero flag is in force: set, with no left-justification and no
\* precision.
ZeroPadInForce ==
    Parsed.zero_padded /\ ~fs.left_justify /\ fs.precision = -1

IsNumeralChar(c) ==
    c \in {"0", "1", "2", "3", "4", "5", "6", "7", "8", "9", "a", "b", "c", "d",
           "e", "f", "A", "B", "C", "D", "E", "F"}

\* ------------------------------------------------------------------------
\* The return value and the fixed buffer.

\* How many bytes the sink can take: all for a stream, a descriptor or a
\* growing string, character_limit - 1 for a fixed buffer (none at limit 0).
Capacity ==
    IF output.type = "OUTPUT_string"
    THEN (IF output.character_limit = 0 THEN 0 ELSE output.character_limit - 1)
    ELSE INT_MAX

\* C1: a string sink counts every write asked of it, stored or suppressed;
\* and when an entry point succeeds it returns the number of writes asked
\* of the sink, which is what a sink without limit receives, while the
\* sink holds min(that count, its capacity) bytes.
C1_ReturnCountsEveryWrite ==
    /\ output.type = "OUTPUT_string"
          => output.characters_written = output.calls
    /\ pc = "done" /\ ret >= 0 /\ output.type # "unset"
          => /\ ret = output.calls
             /\ Len(Emitted) = Min(ret, Capacity)

\* A fixed buffer too small for the output: writes were suppressed.
C1_Witness ==
    /\ pc = "done" /\ entry = "new_snprintf"
    /\ size > 1 /\ ret >= size
    /\ ret = output.calls
    /\ Len(output.string) = size - 1

\* C2: new_snprintf with size S never has more than S - 1 bytes stored; on
\* success with S > 0 the caller's buffer is the stored bytes followed by
\* the terminator, within S slots; with S = 0 nothing at all is put in the
\* buffer and the count of every write asked is still returned.
C2_FixedBufferBound ==
    entry = "new_snprintf" =>
        /\ Len(output.string) <= Max(size - 1, 0)
        /\ pc = "done" /\ ret >= 0 /\ size > 0
              => /\ str = Append(output.string, NUL)
                 /\ Len(str) <= size
        /\ pc = "done" /\ size = 0
              => /\ str = <<>>
                 /\ ret >= 0 => ret = output.calls

\* A truncated output: the terminator sits in the last slot of the buffer.
C2_Witness ==
    /\ pc = "done" /\ entry = "new_snprintf"
    /\ size > 1 /\ ret > size
    /\ Len(str) = size /\ str[size] = NUL

\* ------------------------------------------------------------------------
\* Positions.

DecimalText(n) ==
    IF n < 0 THEN <<"-">> \o NumeralOfMagnitude(n, "d") ELSE Numeral(n, "d")

\* The directive just emitted has no flag, width or precision.
PlainField ==
    /\ AtField
    /\ ~Parsed.left_justify /\ ~Parsed.always_sign /\ ~Parsed.empty_sign
    /\ ~Parsed.alternate_form /\ ~Parsed.zero_padded
    /\ fs.width = 0 /\ fs.precision = -1

\* The pack has been pulled into the table and generic_printf is emitting.
TableFilled ==
    using_positions /\ pc \in {"width", "precision", "check", "switch", "printed", "loop"}

\* C3: once the pack is pulled, slot k of the table holds the k-th value of
\* the pack for every k up to the highest position, whatever the order of
\* the references; a plain integer or string directive with position k
\* renders the k-th value, each time it refers to it; and "%2$s %1$d" with
\* (7, "hi") gives "hi 7" and returns 4.
C3_SlotHoldsItsPackValue ==
    /\ TableFilled =>
          \A k \in 1..position_count :
              pia.array[k].item = [st |-> "live", v |-> args[k]]
    /\ PlainField /\ using_positions /\ fs.type \in {"d", "i", "u"}
          => Field = DecimalText(Rendered)
    /\ PlainField /\ using_positions /\ fs.type = "s"
       /\ args[fs.position].k = "str"
          => Field = args[fs.position].s
    /\ pc = "done" /\ ret >= 0
       /\ format = <<"%", "2", "$", "s", " ", "%", "1", "$", "d">>
          => output.sent = <<"h", "i", " ", "7">> /\ ret = 4

\* "%2$d %1$d %2$d" has printed its third directive: slot 2 a second time.
C3_Witness ==
    /\ PlainField /\ using_positions
    /\ format = <<"%", "2", "$", "d", " ", "%", "1", "$", "d", " ", "%", "2", "$", "d">>
    /\ args = <<IntArg(7), IntArg(0 - 3)>>
    /\ output.sent = <<"-", "3", " ", "7", " ", "-", "3">>

\* The indexes of the template where a directive starts: a '%' that is not
\* part of an escape.
RECURSIVE DirectiveStarts(_)
DirectiveStarts(i) ==
    IF i > Len(format) THEN {}
    ELSE IF format[i] = "%" /\ CharAt(format, i + 1) = "%"
    THEN DirectiveStarts(i + 2)
    ELSE IF format[i] = "%" THEN {i} \cup DirectiveStarts(i + 1)
    ELSE DirectiveStarts(i + 1)

\* The characters after index i are digits followed by '$'.
IndexFollows(i) ==
    \E j \in (i + 2)..Len(format) :
        /\ format[j] = "$"
        /\ \A k \in (i + 1)..(j - 1) : IsDigit(format[k])

\* The index of the conversion letter of the directive that starts at i.
TypeIndex(i) ==
    LET letters == {j \in (i + 1)..Len(format) :
                       format[j] \in {"d", "i", "u", "o", "x", "X", "c", "s", "p",
                                      "n", "f"}}
    IN  IF letters = {} THEN Len(format)
        ELSE CHOOSE j \in letters : \A k \in letters : j <= k

\* The '*' of the directive that starts at i.
StarsOf(i) == {j \in (i + 1)..TypeIndex(i) : format[j] = "*"}

\* The template has a directive with a position and one without.
MixesDisciplines ==
    \E i, j \in DirectiveStarts(1) : IndexFollows(i) /\ ~IndexFollows(j)

\* A directive with a position has a '*' without index, or a directive
\* without position has a '*' with an index.
StarOfOtherDiscipline ==
    \E i \in DirectiveStarts(1) : \E j \in StarsOf(i) :
        IndexFollows(i) # IndexFollows(j)

\* C4: a template that mixes directives with and without a position, or
\* whose '*' has an index in a directive without position or none in a
\* directive with one, makes the entry point return -1.
C4_MixedTemplateFails ==
    pc = "done" /\ (MixesDisciplines \/ StarOfOtherDiscipline) => ret = 0 - 1

\* Such a template has been given and the call has returned.
C4_Witness ==
    /\ pc = "done" /\ ret = 0 - 1
    /\ MixesDisciplines
    /\ format = <<"%", "d", "%", "1", "$", "d">>

\* ------------------------------------------------------------------------
\* Integer fields.

\* An integer directive has just been emitted.
AtIntegerField == AtField /\ fs.type \in IntegerTypes

ZeroFill ==
    IF ZeroPadInForce
    THEN Max(fs.width - Len(ExpectedPrefix) - Len(NumeralOfMagnitude(Rendered, fs.type)), 0)
    ELSE 0

\* How many of the zeros of a sequence of characters belong to the prefix.
PrefixZeros == Len(SelectSeq(ExpectedPrefix, LAMBDA c : c = "0"))

\* C6: a value rendered in base 8, 10 or 16 shows max(precision, number of
\* its digits in that base) digits, 0 having one digit, and they end with
\* its numeral; value 0 under precision 0 shows no digit, and its field is
\* the sign or prefix padded with spaces to the width.
C6_DigitCount ==
    AtIntegerField =>
        LET digits == SelectSeq(Field, IsNumeralChar)
            shown == Len(digits) - PrefixZeros - ZeroFill
            count == Len(NumeralOfMagnitude(Rendered, fs.type))
        IN  IF fs.precision = 0 /\ Rendered = 0
            THEN /\ shown = 0
                 /\ Len(Field) = Max(fs.width, Len(ExpectedPrefix))
                 /\ \E k \in 0..Len(Field) :
                        \/ Field = Repeat(" ", k) \o ExpectedPrefix
                        \/ Field = ExpectedPrefix \o Repeat(" ", k)
            ELSE /\ shown = Max(fs.precision, count)
                 /\ SubSeq(digits, Len(digits) - count + 1, Len(digits))
                        = NumeralOfMagnitude(Rendered, fs.type)

\* Value 0 under precision 0 in a field with a width: no digit, padding only.
C6_Witness ==
    /\ AtIntegerField
    /\ fs.precision = 0 /\ Rendered = 0 /\ fs.width = MaxWidth
    /\ Field = Repeat(" ", MaxWidth)

\* C7: the padding of an integer field is zeros only when the zero flag is
\* set, left-justify is not and no precision is given, and they stand
\* between the sign or prefix and the digits; else it is spaces, after the
\* digits when left-justified and before the sign or prefix when not; so
\* "%05.3d" of 7 gives "  007".
C7_Padding ==
    /\ AtIntegerField =>
          LET fill == Len(Field) - Len(ExpectedPrefix) - Len(ExpectedDigits)
          IN  Field = IF ZeroPadInForce
                      THEN ExpectedPrefix \o Repeat("0", fill) \o ExpectedDigits
                      ELSE IF fs.left_justify
                      THEN ExpectedPrefix \o ExpectedDigits \o Repeat(" ", fill)
                      ELSE Repeat(" ", fill) \o ExpectedPrefix \o ExpectedDigits
    /\ AtIntegerField /\ BoundArg = IntArg(7)
       /\ format = <<"%", "0", "5", ".", "3", "d">>
          => Field = <<" ", " ", "0", "0", "7">>

\* "%05.3d" of 7 has been emitted.
C7_Witness ==
    /\ AtIntegerField /\ BoundArg = IntArg(7)
    /\ format = <<"%", "0", "5", ".", "3", "d">>
    /\ Field = <<" ", " ", "0", "0", "7">>

\* C8: the field of a u, o, x or X directive has no '+' and no '-', and no
\* space where no width asks for padding.
C8_UnsignedHasNoSign ==
    AtField /\ fs.type \in UnsignedTypes =>
        /\ \A k \in 1..Len(Field) : Field[k] \notin {"+", "-"}
        /\ fs.width = 0 => \A k \in 1..Len(Field) : Field[k] # " "

\* C9: after the '*' width is fetched, a negative one has set left-justify
\* and the width to its absolute value, the minimum int has set
\* left-justify and the width to the maximum int, and a non-negative one
\* has set the width and left the flag as parsed.
C9_StarWidth ==
    pc = "precision" /\ fs.preceding_width # 0 =>
        LET width == IF using_positions THEN args[fs.preceding_width].n
                     ELSE args[ap - 1].n
        IN  /\ width >= 0 =>
                fs.width = width /\ fs.left_justify = Parsed.left_justify
            /\ width < 0 /\ width # INT_MIN =>
                fs.width = 0 - width /\ fs.left_justify
            /\ width = INT_MIN =>
                fs.width = INT_MAX /\ fs.left_justify

\* The minimum int has been fetched as a width.
C9_Witness ==
    /\ pc = "precision" /\ fs.preceding_width # 0
    /\ args[ap - 1].n = INT_MIN
    /\ fs.width = INT_MAX /\ fs.left_justify /\ ~Parsed.left_justify

\* C10: a plain integer directive with length hh or h renders its argument
\* wrapped into signed char or short for d and i, and modulo 256 or 65536
\* for u, o, x and X, in both disciplines; "%hhd" of -1 gives "-1" and
\* "%hhu" of 255 gives "255".
C10_Narrowing ==
    /\ PlainField /\ fs.type \in IntegerTypes /\ fs.length \in {"hh", "h"}
          => LET modulus == IF fs.length = "hh" THEN 256 ELSE 65536
                 value == IF fs.type \in SignedTypes
                          THEN WrapSigned(BoundArg.n, modulus)
                          ELSE WrapUnsigned(BoundArg.n, modulus)
             IN  Field = (IF value < 0 THEN <<"-">> ELSE <<>>)
                             \o NumeralOfMagnitude(value, fs.type)
    /\ AtField /\ format = <<"%", "h", "h", "d">> /\ BoundArg = IntArg(0 - 1)
          => Field = <<"-", "1">>
    /\ AtField /\ format = <<"%", "h", "h", "u">> /\ BoundArg = IntArg(255)
          => Field = <<"2", "5", "5">>

\* "%1$hhd %2$hu" of (300, 70000) has printed 44 and then 4464.
C10_Witness ==
    /\ PlainField /\ using_positions
    /\ format = <<"%", "1", "$", "h", "h", "d", " ", "%", "2", "$", "h", "u">>
    /\ args = <<IntArg(300), IntArg(70000)>>
    /\ output.sent = <<"4", "4", " ", "4", "4", "6", "4">>

\* ------------------------------------------------------------------------
\* Negative decimals.

\* The decimal digits of the magnitude of the least int.
LeastIntDigits == <<"2", "1", "4", "7", "4", "8", "3", "6", "4", "8">>

StringBytes == SelectSeq(Field, LAMBDA c : c # " ")

NullLiteral == <<"(", "n", "u", "l", "l", ")">>

\* C12: an s directive on a null pointer shows the literal (null) exactly
\* when the precision is not given or is at least five, and under precision
\* 0 shows no byte but the padding of the width; on a string it shows the
\* first min(precision, length) bytes, all of them when no precision is
\* given; the field is as wide as the width or the bytes shown.
C12_StringBytes ==
    AtField /\ fs.type = "s" =>
        /\ Len(Field) = Max(fs.width, Len(StringBytes))
        /\ BoundArg.k = "null" =>
              /\ StringBytes = NullLiteral
                    <=> (fs.precision = -1 \/ fs.precision >= 5)
              /\ fs.precision = 0 => StringBytes = <<>>
        /\ BoundArg.k = "str" =>
              StringBytes =
                  SubSeq(BoundArg.s, 1,
                         IF fs.precision = -1 THEN Len(BoundArg.s)
                         ELSE Min(fs.precision, Len(BoundArg.s)))

\* ------------------------------------------------------------------------
\* The count of characters written.

\* An n directive has just been processed.
AtCount == pc = "printed" /\ fs.type = "n"

\* The count when the directive was read, brought into the type the length
\* modifier selects.
CountNarrowed ==
    IF fs.length = "hh" THEN WrapSigned(mark, 256)
    ELSE IF fs.length = "h" THEN WrapSigned(mark, 65536)
    ELSE mark

\* C13: an n directive emits nothing and leaves characters_written as it
\* was; the object its argument points at then holds the count of the
\* characters so far, those a fixed buffer suppressed included, narrowed to
\* the type of the length modifier; on a null pointer the call returns -1;
\* "%.*d:%n" of (4, 7, &k) gives "0007:", returns 5 and leaves 5 in k.
C13_CountStored ==
    /\ AtCount =>
          /\ output.characters_written = mark
          /\ AtField => Field = <<>>
          /\ output.type = "OUTPUT_string" => mark = output.calls
          /\ memory[BoundArg.n] = CountNarrowed
    /\ (/\ pc = "done" /\ fs.type = "n" /\ (using_positions \/ ap > 1)
        /\ BoundArg = PtrArg(0))
          => ret = 0 - 1
    /\ (/\ pc = "done" /\ format = <<"%", ".", "*", "d", ":", "%", "n">>
        /\ args = <<IntArg(4), IntArg(7), PtrArg(1)>>)
          => /\ ret = 5 /\ memory[1] = 5
             /\ entry \in {"new_printf", "new_sprintf"}
                   => Emitted = <<"0", "0", "0", "7", ":">>

\* After 200 characters, all but three suppressed by the buffer, "%hhn" has
\* stored 200 as a signed char.
C13_Witness ==
    /\ AtCount /\ entry = "new_snprintf" /\ size = 4
    /\ fs.length = "hh" /\ mark = 200 /\ Len(output.string) = 3
    /\ memory[2] = 200 - 256

\* ------------------------------------------------------------------------
\* Escapes.

\* How many escapes the template has from index i up to, not including, k.
RECURSIVE EscapesFrom(_, _)
EscapesFrom(i, k) ==
    IF i >= k \/ i > Len(format) THEN 0
    ELSE IF format[i] = "%" /\ CharAt(format, i + 1) = "%"
    THEN 1 + EscapesFrom(i + 2, k)
    ELSE EscapesFrom(i + 1, k)

\* How many values of the pack the directives before index k take in the
\* sequential discipline: one each, and one for each '*'.
RECURSIVE ArgsOf(_)
ArgsOf(starts) ==
    IF starts = {} THEN 0
    ELSE LET i == CHOOSE j \in starts : TRUE
         IN  1 + Cardinality(StarsOf(i)) + ArgsOf(starts \ {i})

ArgsBefore(k) == ArgsOf({i \in DirectiveStarts(1) : i < k})

\* How many '%' a sequence of characters has (no argument of the calls
\* prints one).
PercentCount(text) == Len(SelectSeq(text, LAMBDA c : c = "%"))

\* The call is between two elements of the template and its sink keeps
\* every byte.
BetweenElements ==
    /\ pc = "loop"
    /\ entry \in {"new_printf", "new_sprintf", "new_asprintf", "new_vdprintf"}

\* C14: whenever the call stands between two elements of the template, the
\* output has one '%' for each escape passed, the values taken from the
\* pack are those of the directives passed (in the positional discipline
\* the whole table, which has no slot for an escape), and the discipline
\* is decided only if a directive was passed; "%2$d%%%1$d" of (7, 8) gives
\* "8%7" and "%d%%%d" of (7, 8) gives "7%8".
C14_EscapeIsOnePercent ==
    /\ BetweenElements =>
          /\ PercentCount(Emitted) = EscapesFrom(1, fpos)
          /\ ~using_positions => ap - 1 = ArgsBefore(fpos)
          /\ using_positions => ap - 1 = position_count
          /\ first_element = ({i \in DirectiveStarts(1) : i < fpos} = {})
    /\ (/\ pc = "done" /\ entry = "new_printf"
        /\ format = <<"%", "2", "$", "d", "%", "%", "%", "1", "$", "d">>
        /\ args = <<IntArg(7), IntArg(8)>>)
          => ret = 3 /\ Emitted = <<"8", "%", "7">>
    /\ (/\ pc = "done" /\ entry = "new_printf"
        /\ format = <<"%", "d", "%", "%", "%", "d">>)
          => ret = 3 /\ Emitted = <<"7", "%", "8">>

\* "%1$s%%%%%2$d%%" of ("hi", 7) has given "hi%%7%".
C14_Witness ==
    /\ BetweenElements /\ using_positions /\ fpos > Len(format)
    /\ format = <<"%", "1", "$", "s", "%", "%", "%", "%", "%", "2", "$", "d", "%", "%">>
    /\ Emitted = <<"h", "i", "%", "%", "7", "%">>
    /\ position_count = 2

\* ------------------------------------------------------------------------
\* The fixed buffer against the stream.

\* C15: when new_snprintf is given the template and arguments of a
\* new_printf call that returned n, and a buffer of n + 1 bytes or more, it
\* returns n too and the buffer holds the bytes the stream received,
\* followed by the terminator.
C15_BufferMatchesStream ==
    earlier.made /\ pc = "done" =>
        /\ ret = earlier.ret
        /\ output.string = earlier.bytes
        /\ str = Append(earlier.bytes, NUL)

\* "%.*d:%n" of (4, 7, &k) has been given to both, the buffer having just
\* the six bytes needed.
C15_Witness ==
    /\ earlier.made /\ pc = "done" /\ size = ret + 1
    /\ format = <<"%", ".", "*", "d", ":", "%", "n">>
    /\ earlier.bytes = <<"0", "0", "0", "7", ":">>
    /\ str = <<"0", "0", "0", "7", ":", NUL>>

\* ------------------------------------------------------------------------
\* Directives that are rejected.

\* The index after the position, flags, width and precision of the directive
\* that starts at i.
AfterNumbers(i) ==
    LET others == {j \in (i + 1)..Len(format) :
                      ~(\/ IsDigit(format[j])
                        \/ format[j] \in {"$", "-", "+", " ", "#", "*", "."})}
    IN  IF others = {} THEN Len(format) + 1
        ELSE CHOOSE j \in others : \A k \in others : j <= k

\* The length modifier written at index j, <<>> if none.
LengthAt(j) ==
    IF CharAt(format, j) \in {"h", "l"} /\ CharAt(format, j + 1) = CharAt(format, j)
    THEN <<format[j], format[j]>>
    ELSE IF CharAt(format, j) \in {"h", "l", "j", "z", "t", "L"}
    THEN <<format[j]>>
    ELSE <<>>

\* The conversion letter of the directive that starts at i (NUL when the
\* template ends before it).
LetterOf(i) == CharAt(format, AfterNumbers(i) + Len(LengthAt(AfterNumbers(i))))

\* The directive that starts at i is one the code does not support.
Unsupported(i) ==
    LET length == LengthAt(AfterNumbers(i))
        letter == LetterOf(i)
    IN  \/ letter \in FloatTypes
        \/ letter \notin IntegerTypes \cup FloatTypes \cup {"c", "s", "p", "n"}
        \/ length = <<"L">> /\ letter \in IntegerTypes \cup {"n", "c", "s", "p"}
        \/ length # <<>> /\ letter = "p"

\* C16: a call whose template has a floating-point directive, a letter that
\* is no type, L with an integer type, n, c, s or p, or any length with p,
\* returns -1.
C16_UnsupportedRejected ==
    pc = "done" /\ (\E i \in DirectiveStarts(1) : Unsupported(i)) => ret = 0 - 1

\* "ab%5Lf" has been given to new_printf: "ab" was written, the directive
\* was refused and the call has returned -1.
C16_Witness ==
    /\ pc = "done" /\ ret = 0 - 1 /\ ~result /\ entry = "new_printf"
    /\ format = <<"a", "b", "%", "5", "L", "f">>
    /\ output.sent = <<"a", "b">>

\* C17: a call whose template has a c or s directive with a length modifier,
\* l included, returns -1.
C17_LengthOnTextRejected ==
    (/\ pc = "done"
     /\ \E i \in DirectiveStarts(1) :
            LetterOf(i) \in {"c", "s"} /\ LengthAt(AfterNumbers(i)) # <<>>)
        => ret = 0 - 1

\* ------------------------------------------------------------------------
\* Slots referenced more than once.

\* The number written from index j on, after the digits that gave `sofar`.
RECURSIVE NumberFrom(_, _)
NumberFrom(j, sofar) ==
    IF IsDigit(CharAt(format, j))
    THEN NumberFrom(j + 1, sofar * 10 + DigitValue(format[j]))
    ELSE sofar

\* The references of the template to slots, as <<slot, length, type>>: one
\* for each directive with a position, and one to an int of no length
\* modifier for each '*' with an index.
ValueReferences ==
    {<<NumberFrom(i + 1, 0), LengthAt(AfterNumbers(i)), LetterOf(i)>> :
        i \in {k \in DirectiveStarts(1) : IndexFollows(k)}}

WidthReferences ==
    {<<NumberFrom(j + 1, 0), <<>>, "i">> :
        j \in UNION {{k \in StarsOf(i) : IndexFollows(k) /\ format[k - 1] # "."} :
                        i \in DirectiveStarts(1)}}

PrecisionReferences ==
    {<<NumberFrom(j + 1, 0), <<>>, "i">> :
        j \in UNION {{k \in StarsOf(i) : IndexFollows(k) /\ format[k - 1] = "."} :
                        i \in DirectiveStarts(1)}}

\* Two of the references are to one slot and differ in length or type.
Conflicting(references) ==
    \E a, b \in references : a[1] = b[1] /\ (a[2] # b[2] \/ a[3] # b[3])

\* The first directive of the template has a position.
PositionalTemplate ==
    /\ DirectiveStarts(1) # {}
    /\ IndexFollows(CHOOSE i \in DirectiveStarts(1) :
                        \A k \in DirectiveStarts(1) : i <= k)

\* C18: a call of the positional discipline whose template refers to one
\* slot with two different (length, type) pairs, a '*' with an index being a
\* reference to an int of no length modifier, returns -1 and has taken no
\* value from the pack.
C18_ConflictRejected ==
    (/\ pc = "done" /\ PositionalTemplate
     /\ Conflicting(ValueReferences \cup WidthReferences \cup PrecisionReferences))
        => ret = 0 - 1 /\ ap = 1

\* The same for the conflicts that involve no '*' precision.
ConflictWithoutPrecisionRejected ==
    (/\ pc = "done" /\ PositionalTemplate
     /\ Conflicting(ValueReferences \cup WidthReferences))
        => ret = 0 - 1 /\ ap = 1

\* ------------------------------------------------------------------------
\* Slots without reference.

\* The slots the template refers to.
ReferencedSlots ==
    {r[1] : r \in ValueReferences \cup WidthReferences \cup PrecisionReferences}

\* A slot below the highest one referred to has no reference.
SlotWithoutReference ==
    \E n \in ReferencedSlots : \E k \in 1..n : k \notin ReferencedSlots

\* The index of the first directive of the template.
FirstDirective == CHOOSE i \in DirectiveStarts(1) : \A k \in DirectiveStarts(1) : i <= k

\* The text of the template from index i up to, not including, k, as it is
\* emitted: each escape is one '%'.
RECURSIVE TextBefore(_, _)
TextBefore(i, k) ==
    IF i >= k THEN <<>>
    ELSE IF format[i] = "%" THEN <<"%">> \o TextBefore(i + 2, k)
    ELSE <<format[i]>> \o TextBefore(i + 1, k)

\* The call has returned; it was of the positional discipline, its template
\* leaves a slot without reference, and the pre-scan stayed inside its table.
ReturnedWithUnreferencedSlot ==
    /\ pc = "done" /\ PositionalTemplate /\ SlotWithoutReference /\ ~ub

\* C19: a call of the positional discipline whose template leaves a slot of
\* 1..N without reference (N the highest index of a directive or of a '*'
\* width or precision) returns -1 having taken no value from the pack and
\* having emitted nothing but the text and escapes that come before the
\* first directive (all of them where the sink takes every byte).
C19_UnreferencedSlotRejected ==
    ReturnedWithUnreferencedSlot =>
        /\ ret = 0 - 1 /\ ap = 1
        /\ Len(Emitted) <= Len(TextBefore(1, FirstDirective))
        /\ Emitted = SubSeq(TextBefore(1, FirstDirective), 1, Len(Emitted))
        /\ entry = "new_printf" /\ output.accepts = Unlimited
              => Emitted = TextBefore(1, FirstDirective)

\* "ab%1$d %3$d" of (7, 8, 9) has returned -1 with "ab" on the stream and the
\* pack untouched.
C19_Witness ==
    /\ ReturnedWithUnreferencedSlot /\ entry = "new_printf"
    /\ format = <<"a", "b", "%", "1", "$", "d", " ", "%", "3", "$", "d">>
    /\ ret = 0 - 1 /\ ap = 1 /\ Emitted = <<"a", "b">>

\* C19 as the specification words it: nothing at all has been emitted.
C19_NothingEmitted ==
    ReturnedWithUnreferencedSlot => ret = 0 - 1 /\ ap = 1 /\ Emitted = <<>>

\* ------------------------------------------------------------------------
\* The owned buffer on failure.

\* new_asprintf (new_vasprintf has the same body) has returned -1.
OwnedBufferCallFailed ==
    /\ pc = "done" /\ entry = "new_asprintf" /\ ret = 0 - 1

\* C20: whenever new_asprintf or new_vasprintf has returned -1, the block it
\* allocated is no longer allocated and *strp is NULL.
C20_FailureReleasesBuffer ==
    OwnedBufferCallFailed => output.block_state # "live" /\ strp = "NULL"

\* The part of it about *strp alone.
FailureNullsOutParameter ==
    OwnedBufferCallFailed => strp = "NULL"

\* ------------------------------------------------------------------------
\* Failure part-way through a template.

\* s is the start of t.
IsPrefixOf(s, t) == Len(s) <= Len(t) /\ s = SubSeq(t, 1, Len(s))

\* The stream or the descriptor has refused a write: printf_output has been
\* called more often than bytes have arrived.
WriteRefused ==
    /\ output.type \in {"OUTPUT_stream", "OUTPUT_file_descriptor"}
    /\ output.calls > Len(output.sent)

\* The call has returned after generic_printf failed with part of the
\* template emitted.
FailedPartWay == pc = "done" /\ ~result /\ Len(Emitted) > 0

\* What holds in every state.
FailureIsFinal ==
    /\ WriteRefused => output.calls = Len(output.sent) + 1
    /\ WriteRefused /\ pc = "done" => ret = 0 - 1
    /\ pc = "done" /\ ~result => ret = 0 - 1
    /\ pc = "done" /\ ret = 0 - 1 /\ entry \in {"new_sprintf", "new_snprintf"}
          => str = output.string /\ ~(\E i \in 1..Len(str) : str[i] = NUL)

\* What holds of every step: the bytes the sink holds stay, in their place.
NoRollback == IsPrefixOf(Emitted, Emitted')

\* C21: once a stream or a descriptor has refused a write, no further write
\* is attempted and the entry point returns -1; so it does after a failure
\* of generic_printf for any other cause; no step takes back a byte the
\* sink holds; and a fixed buffer gets no terminator from a call that
\* returns -1.
C21_FailureStopsTheCall == []FailureIsFinal /\ [][NoRollback]_vars

\* "%d %x" of (7, 255) to a descriptor that takes two writes: "7 " has
\* arrived, the third write was refused and not repeated, the call has
\* returned -1.
C21_Witness ==
    /\ FailedPartWay /\ WriteRefused /\ entry = "new_vdprintf"
    /\ format = <<"%", "d", " ", "%", "x">>
    /\ output.sent = <<"7", " ">> /\ output.calls = 3 /\ ret = 0 - 1

\* ------------------------------------------------------------------------
\* The descriptor entry points.

\* C22: from its set-up on, a call of new_dprintf or new_vdprintf has an
\* output_specifier of type OUTPUT_file_descriptor, so that printf_output
\* hands every character to printf_output_dprintf, and no write of it has
\* gone through a stream handle.
C22_DescriptorSinkOnly ==
    (entry \in {"new_dprintf", "new_vdprintf"} /\ pc # "call")
        => output.type = "OUTPUT_file_descriptor" /\ ~output.ub

\* The same of new_vdprintf alone.
VariadicDescriptorSinkOnly ==
    (entry = "new_vdprintf" /\ pc # "call")
        => output.type = "OUTPUT_file_descriptor" /\ ~output.ub

\* ------------------------------------------------------------------------
\* The table of the positional discipline when the call returns.

\* A call of the positional discipline has returned.
PositionalCallReturned == pc = "done" /\ using_positions

\* C23: when a call of the positional discipline has returned, on whatever
\* path, the table is no longer allocated and none of the values stored for
\* the slots 1..N is.
C23_TableAndValuesReleased ==
    PositionalCallReturned =>
        /\ pia.array_state # "live"
        /\ \A k \in 1..Len(pia.array) : pia.array[k].item.st # "live"

\* The same, leaving out the value of the highest slot and the calls that
\* stopped at a floating-point directive.
TableAndEarlierValuesReleased ==
    (PositionalCallReturned /\ fs.type \notin FloatTypes) =>
        /\ pia.array_state # "live"
        /\ \A k \in 1..Len(pia.array) :
              k < position_count => pia.array[k].item.st # "live"

\* ------------------------------------------------------------------------
\* The slot of a '*' precision.

\* new_printf has returned from the template `template` and the pack `pack`
\* on a heap that grants every block.
PrintfReturnedFrom(template, pack) ==
    /\ pc = "done" /\ entry = "new_printf" /\ mallocs = Unlimited
    /\ format = template /\ args = pack

\* C24: the pre-scan records an int for the slot a '.*M$' names, so a
\* template whose slot M has no other reference passes it and is rendered
\* with the precision of argument M, inside the table all along:
\* "%1$.*2$d" of (7, 3) gives "007" and "%1$*2$.*3$d" of (7, 4, 2) "  07".
C24_PrecisionSlotRecorded ==
    /\ PrintfReturnedFrom(<<"%", "1", "$", ".", "*", "2", "$", "d">>,
                          <<IntArg(7), IntArg(3)>>)
          => ~ub /\ ret = 3 /\ Emitted = <<"0", "0", "7">>
    /\ PrintfReturnedFrom(<<"%", "1", "$", "*", "2", "$", ".", "*", "3", "$", "d">>,
                          <<IntArg(7), IntArg(4), IntArg(2)>>)
          => ~ub /\ ret = 4 /\ Emitted = <<" ", " ", "0", "7">>

\* What the code does with them: both calls return -1 with nothing emitted,
\* the first after using the element before the table.
PrecisionSlotLeftUnrecorded ==
    /\ PrintfReturnedFrom(<<"%", "1", "$", ".", "*", "2", "$", "d">>,
                          <<IntArg(7), IntArg(3)>>)
          => ub /\ ret = 0 - 1 /\ Emitted = <<>>
    /\ PrintfReturnedFrom(<<"%", "1", "$", "*", "2", "$", ".", "*", "3", "$", "d">>,
                          <<IntArg(7), IntArg(4), IntArg(2)>>)
          => ~ub /\ ret = 0 - 1 /\ Emitted = <<>>

\* ------------------------------------------------------------------------
\* The capacity field of the growable sink.

\* The call writes to a block of the heap that is allocated.
OwnedBlockLive ==
    output.type = "OUTPUT_allocated_string" /\ output.block_state = "live"

\* C25: whenever the block of new_asprintf is allocated, allocated_size is
\* its size; the first block has BASE_ALLOCATED_STRING_SIZE bytes.
C25_CapacityIsAllocation ==
    /\ OwnedBlockLive => output.allocated_size = output.block
    /\ OwnedBlockLive /\ output.characters_written = 0
          => output.block = BASE_ALLOCATED_STRING_SIZE

\* The same while generic_printf runs, and what the growth for the
\* terminator leaves: a block of one byte more, a field twice as large.
CapacityIsAllocationUntilTerminator ==
    /\ OwnedBlockLive /\ pc # "done" => output.allocated_size = output.block
    /\ OwnedBlockLive /\ pc # "done"
          => \E k \in 0..2 : output.block = BASE_ALLOCATED_STRING_SIZE * 2 ^ k
    /\ OwnedBlockLive /\ pc = "done" /\ output.allocated_size # output.block
          => /\ output.allocated_size = 2 * (output.block - 1)
             /\ output.characters_written = output.block - 1

\* ------------------------------------------------------------------------
\* The order of the stages of a directive.

\* The stages a step can lead from and to: a directive goes through parse,
\* mode decision, width fetch, precision fetch, normalisation, emission and
\* advance, or leaves for the return of generic_printf.
StageSteps ==
    {<<"call", "loop">>, <<"call", "done">>, <<"loop", "loop">>,
     <<"loop", "parsed">>, <<"loop", "return">>,
     <<"parsed", "width">>, <<"parsed", "return">>,
     <<"parsed", "growing">>, <<"growing", "growing">>, <<"growing", "return">>,
     <<"width", "precision">>, <<"precision", "check">>,
     <<"check", "switch">>,
     <<"switch", "printed">>, <<"switch", "return">>,
     <<"printed", "loop">>, <<"return", "done">>}

\* What holds of every step: it follows the order of the stages; the
\* discipline is decided by the step after the parse of the first directive
\* and by no other; the pack is read in the sequential discipline by the
\* width fetch, the precision fetch and the emission, one value each; the
\* template cursor moves in the parse and the advance (and past text).
StagesInOrder ==
    /\ <<pc, pc'>> \in StageSteps
    /\ using_positions' # using_positions => pc = "parsed" /\ first_element
    /\ pc' = "growing" => using_positions' /\ pc \in {"parsed", "growing"}
    /\ first_element' # first_element => pc = "parsed"
    /\ (~using_positions' /\ ap' # ap) =>
          /\ ap' = ap + 1
          /\ \/ pc = "width" /\ fs.preceding_width # 0
             \/ pc = "precision" /\ fs.preceding_precision # 0
             \/ pc = "switch"
    /\ fpos' # fpos => pc \in {"loop", "printed"}
    /\ (fs' # fs /\ pc \in {"width", "precision"}) =>
          fs'.type = fs.type /\ fs'.length = fs.length

\* The directive in hand is of the sequential discipline, of an integer
\* type, with a '*' width and a '*' precision, and has been normalised.
BothStarsFetched ==
    /\ pc \in {"switch", "printed"} /\ ~using_positions
    /\ fs.type \in IntegerTypes
    /\ fs.preceding_width # 0 /\ fs.preceding_precision # 0

\* The values of the pack taken as width and as precision by it.
WidthTaken == args[ArgsBefore(fpos - 1) + 1].n

PrecisionTaken == args[ArgsBefore(fpos - 1) + 2].n

\* What holds in every state: the width is the first and the precision the
\* second value of the pack after those of the directives before, and the
\* third is the one printed; the normalised descriptor is that of the
\* fetched values (a precision from the pack drops the 0 flag, a negative one
\* leaves the precision unspecified and the 0 flag to the other rules; a
\* negative width from the pack left-justifies and so drops the 0 flag).
FetchedThenNormalised ==
    /\ BothStarsFetched =>
          /\ ap - 1 = ArgsBefore(fpos - 1) + (IF pc = "switch" THEN 2 ELSE 3)
          /\ fs.width = (IF WidthTaken < 0 THEN 0 - WidthTaken ELSE WidthTaken)
          /\ fs.left_justify = (Parsed.left_justify \/ WidthTaken < 0)
          /\ PrecisionTaken >= 0 => fs.precision = PrecisionTaken /\ ~fs.zero_padded
          /\ PrecisionTaken < 0 =>
                /\ fs.precision = 0 - 1
                /\ fs.zero_padded = (Parsed.zero_padded /\ ~fs.left_justify)
          /\ pc = "printed" => BoundArg = args[ArgsBefore(fpos - 1) + 3]
    /\ (/\ pc = "done" /\ entry = "new_printf"
        /\ format = <<"%", "0", "*", ".", "*", "d">> /\ args[3] = IntArg(7))
          => /\ (args[2].n = MaxPrec - 1 /\ args[1].n > 0)
                  => Emitted = Repeat(" ", MaxWidth - MaxPrec) \o Repeat("0", MaxPrec - 2) \o <<"7">>
             /\ (args[2].n < 0 /\ args[1].n > 0)
                  => Emitted = Repeat("0", MaxWidth - 2) \o <<"7">>

\* C26: every step follows the order parse, mode decision (first directive
\* only), '*' width fetch, '*' precision fetch, normalisation, emission,
\* advance; a sequential directive with both '*' takes width, precision and
\* value from the pack in this order, and the normaliser works on the
\* fetched width and precision, a negative '*' precision being ignored.
C26_StagesOfADirective == []FetchedThenNormalised /\ [][StagesInOrder]_vars

\* "%0*.*d" of (-MaxWidth, -1, 300) has been printed: left-justified by the
\* width of the pack, precision unspecified, the 0 flag dropped.
C26_Witness ==
    /\ BothStarsFetched /\ pc = "printed"
    /\ WidthTaken = 0 - MaxWidth /\ PrecisionTaken = 0 - 1
    /\ Parsed.zero_padded /\ ~fs.zero_padded /\ fs.left_justify
    /\ fs.precision = 0 - 1 /\ BoundArg = IntArg(300)

\* ------------------------------------------------------------------------
\* Termination.

\* The doubling loop stands at a size from which doubling leads nowhere.
GrowthStuck == pc = "growing" /\ current_size <= 0

\* C27: every call on a finite template returns: the main loop comes to the
\* end of the template or to an error, and the doubling loop of the slot
\* table, with int arithmetic modulo 2^32, reaches the required size after
\* finitely many doublings, for large positions too.
C27_EveryCallReturns == <>(pc = "done")

\* Every call returns or ends up in the doubling loop at a size that is not
\* positive.
ReturnsUnlessGrowthStuck == <>(pc = "done" \/ GrowthStuck)

\* What holds of every step of generic_printf's loop: a step that takes up
\* the next element of the template, or finishes a directive, moves the
\* cursor forward, the latter by the length of the directive, which is 1 or
\* more; and the doubling loop, below 2^30, doubles until it has the
\* required size.
CursorMovesForward ==
    /\ (pc = "loop" /\ pc' \in {"loop", "parsed"}) => fpos' > fpos
    /\ (pc = "printed" /\ pc' = "loop") =>
          fs.input_length >= 1 /\ fpos' = fpos + fs.input_length
    /\ (pc = "growing" /\ pc' = "growing" /\ ~twice_overflows(current_size)
        /\ current_size > 0) =>
          current_size' = 2 * current_size /\ current_size < fs.position

EveryStepMovesForward == [][CursorMovesForward]_vars

\* ------------------------------------------------------------------------
\* Owned allocations are released once and not used afterwards.

\* The states of the growable buffer's block, the slot table and the slot
\* values.
AllocationStates ==
    {output.block_state, pia.array_state}
        \cup {pia.array[k].item.st : k \in 1..Len(pia.array)}

\* generic_printf is in its loop: the next step may write to the sink and,
\* in the positional discipline, read the table.
InTheLoop ==
    pc \in {"loop", "parsed", "width", "precision", "check", "switch", "printed"}

\* The block is about to be written: by printf_output_asprintf, or by the
\* store of the terminator after generic_printf gave true.
BlockInUse ==
    /\ output.type = "OUTPUT_allocated_string"
    /\ InTheLoop \/ (pc = "return" /\ result)

\* The slots the next step reads: the width's, the precision's, the value's.
SlotsInUse ==
    IF ~using_positions THEN {}
    ELSE IF pc = "width" /\ fs.preceding_width # 0 THEN {fs.preceding_width}
    ELSE IF pc = "precision" /\ fs.preceding_precision # 0
    THEN {fs.preceding_precision}
    ELSE IF pc = "switch" /\ fs.type \in IntegerTypes \cup {"s", "c", "p", "n"}
    THEN {fs.position}
    ELSE {}

\* C28: no owned allocation is released twice or used after its release: the
\* growable buffer, the slot table and every slot value are freed at most
\* once; the buffer is live whenever it is written and when it is handed to
\* the caller; the table and the slot read are live whenever generic_printf
\* reads them.
C28_ReleasedOnceNeverUsedAfter ==
    /\ "freed twice" \notin AllocationStates
    /\ BlockInUse => output.block_state = "live"
    /\ strp = "block" => output.block_state = "live"
    /\ (using_positions /\ InTheLoop) => pia.array_state = "live"
    /\ \A k \in SlotsInUse :
          k \in 1..Len(pia.array) /\ pia.array[k].item.st = "live"

\* A positional call has returned -1 from the pass that fills the slots,
\* with a value stored and freed, a slot not reached, and the table freed.
C28_Witness ==
    /\ pc = "done" /\ ret = 0 - 1 /\ using_positions
    /\ pia.array_state = "freed"
    /\ \E k \in 1..Len(pia.array) : pia.array[k].item.st = "freed"
    /\ \E k \in 1..Len(pia.array) :
          pia.array[k].type # "ERROR" /\ pia.array[k].item.st = "null"

\* new_asprintf has returned -1 with the block freed by the sink.
BlockReleasedOnce ==
    pc = "done" /\ entry = "new_asprintf" /\ output.block_state = "freed"

\* ------------------------------------------------------------------------
\* Accesses to the slot table.

\* A directive of the template has a '.*M$' precision and no '*' width.
PrecisionWithoutWidth ==
    \E i \in DirectiveStarts(1) :
        /\ \E k \in StarsOf(i) : IndexFollows(k) /\ format[k - 1] = "."
        /\ \A k \in StarsOf(i) : format[k - 1] = "."

\* The emit pass reads slots of the table that the filling pass has filled.
EmitPassInsideTable ==
    \A k \in SlotsInUse : k - 1 >= 0 /\ k - 1 < pia.size /\ k <= position_count

\* C29: every access to the slot table is inside it: the pre-scan's accesses
\* to the value slot, the '*M$' width slot and the '.*M$' precision slot use
\* an index i with 0 <= i < size, and so do the emit pass's lookups, which
\* moreover stay below the number of slots filled.
C29_TableAccessInsideTable ==
    /\ ~pia.outside
    /\ EmitPassInsideTable

\* The pre-scan leaves the table only for a '.*M$' precision without '*'
\* width, and then on every run that gets to that directive with a table.
OutsideForPrecisionWithoutWidth ==
    /\ pia.outside => PrecisionWithoutWidth /\ using_positions
    /\ (/\ PrecisionWithoutWidth /\ PositionalTemplate /\ ~MixesDisciplines
        /\ ~StarOfOtherDiscipline /\ mallocs = Unlimited /\ pc = "done"
        /\ ~Conflicting(ValueReferences \cup WidthReferences))
          => pia.outside \/ ~using_positions

\* ------------------------------------------------------------------------
\* Stores of the growable sink.

\* C30: on the growable sink characters_written never exceeds the capacity,
\* and every byte stored, the terminator at index characters_written
\* included, lands below the size of the block allocated at that moment.
C30_StoresInsideTheBlock ==
    output.type = "OUTPUT_allocated_string" =>
        /\ ~output.overrun
        /\ output.characters_written <= output.allocated_size
        /\ output.characters_written = Len(output.string)
        /\ output.block_state # "none" => Len(output.string) <= output.block
        /\ strp = "block" =>
              /\ str = Append(output.string, NUL)
              /\ Len(str) <= output.block

\* new_asprintf has returned a string that filled the first block exactly:
\* the block was grown by one byte and the terminator stored in that byte.
C30_Witness ==
    /\ pc = "done" /\ entry = "new_asprintf" /\ strp = "block"
    /\ ret = BASE_ALLOCATED_STRING_SIZE
    /\ output.block = BASE_ALLOCATED_STRING_SIZE + 1
    /\ Len(str) = output.block /\ str[Len(str)] = NUL

\* new_asprintf is emitting into a block that has been doubled.
BlockDoubledWhileEmitting ==
    /\ InTheLoop /\ output.type = "OUTPUT_allocated_string"
    /\ output.block = 2 * BASE_ALLOCATED_STRING_SIZE
    /\ output.characters_written > BASE_ALLOCATED_STRING_SIZE

====
